---- MODULE Spec2Model ----
(***************************************************************************)
(* Model of the schema / descriptor resolution and dynamic validation      *)
(* engine of validation-poc (backend/service, backend/handler,             *)
(* backend/config).                                                        *)
(*                                                                         *)
(* Text (type names, error messages) is a sequence of chunks; each chunk   *)
(* is a TLA+ string.  A type name is a sequence of one-character chunks,   *)
(* an error message is the concatenation of the literal pieces of its      *)
(* fmt.Errorf format and of its arguments; a nil error is the empty text.  *)
(***************************************************************************)
EXTENDS Integers, Sequences, FiniteSets, TLC

VARIABLES env, bsrToken, validationMode, schemaMode, GlobalFiles, last, prev

vars == <<env, bsrToken, validationMode, schemaMode, GlobalFiles, last, prev>>

(***************************************************************************)
(* config.SchemaSourceMode                                                 *)
(***************************************************************************)
LocalThenBSR == "LocalThenBSR"

BSROnly == "BSROnly"

LocalOnly == "LocalOnly"

SchemaSourceMode == {LocalThenBSR, BSROnly, LocalOnly}

(***************************************************************************)
(* Text helpers                                                            *)
(***************************************************************************)
NoErr == <<>>

\* strings.Contains on a single-character needle of a name
ContainsChar(s, c) == \E i \in 1..Len(s) : s[i] = c

\* the chunk sequence needle occurs contiguously in hay
ContainsText(hay, needle) ==
    \E i \in 0..(Len(hay) - Len(needle)) :
        \A j \in 1..Len(needle) : hay[i + j] = needle[j]

\* some chunk of the text is one of the given chunks
HasChunk(text, chunks) == \E i \in 1..Len(text) : text[i] \in chunks

(***************************************************************************)
(* Type names the callers send                                             *)
(***************************************************************************)
Letters == {"p", "A", "B", "_"}

Digits == {"1"}

NameUser == <<"p", ".", "A">>

NameOther == <<"p", ".", "B">>

Names ==
    { <<>>,
      <<"p">>,
      NameUser,
      NameOther,
      <<"p", ".", ".", "A">>,
      <<"p", ".", "1">>,
      <<"p", ".">>,
      <<".", ".", "/", "p", ".", "A">>,
      <<"p", ".", "A", "/", "B">> }

\* the names the compiled-in registry may hold
RegisteredNames == {NameUser}

\* SchemaService.validateMessageName: non-empty, contains a dot, and is two
\* or more identifiers (a letter or underscore, then letters, digits and
\* underscores) joined by single dots, anchored at both ends.
IsIdentStart(c) == c \in Letters

IsIdentPart(c) == c \in Letters \cup Digits

\* the pattern without its anchors: some part of the name is two or more
\* identifiers joined by single dots
MatchesNamePattern_Unanchored(name) ==
    \E a \in 1..Len(name) : \E b \in a..Len(name) :
        LET part == SubSeq(name, a, b)
        IN  /\ ContainsChar(part, ".")
            /\ part[1] # "."
            /\ part[Len(part)] # "."
            /\ \A i \in 1..Len(part) :
                  IF part[i] = "."
                  THEN i < Len(part) /\ part[i + 1] # "."
                  ELSE IF i = 1 \/ part[i - 1] = "."
                       THEN IsIdentStart(part[i])
                       ELSE IsIdentPart(part[i])

\* every maximal dot-free run of name is an identifier, and there are >= 2
MatchesNamePattern(name) ==
    /\ Len(name) > 0
    /\ ContainsChar(name, ".")
    /\ name[1] # "."
    /\ name[Len(name)] # "."
    /\ \A i \in 1..Len(name) :
          IF name[i] = "."
          THEN i < Len(name) /\ name[i + 1] # "."
          ELSE IF i = 1 \/ name[i - 1] = "."
               THEN IsIdentStart(name[i])
               ELSE IsIdentPart(name[i])

validateMessageName(name) ==
    IF name = <<>>
    THEN <<"message name cannot be empty">>
    ELSE IF ~ContainsChar(name, ".")
         THEN <<"message name must be in format 'package.Message', got: ">> \o name
         ELSE IF ~MatchesNamePattern(name)
              THEN <<"message name must match pattern 'package.Message' with valid identifiers, got: ">> \o name
              ELSE NoErr

(***************************************************************************)
(* Remote answers: sent is FALSE for a transport failure (httpClient.Do    *)
(* returns an error); otherwise status is the HTTP status code.            *)
(***************************************************************************)
StatusOK == 200

StatusUnauthorized == 401

StatusNotFound == 404

StatusBadRequest == 400

StatusInternalServerError == 500

StatusText(code) ==
    CASE code = 401 -> "401"
      [] code = 404 -> "404"
      [] code = 500 -> "500"
      [] OTHER -> "other"

FailureStatuses == {StatusUnauthorized, StatusNotFound, StatusInternalServerError}

TransportFailure == [sent |-> FALSE, status |-> 0, body |-> "none"]

\* answers of the schema-bundle URL: a failure, or 200 with a body that can
\* or cannot be read to its end
SchemaResponses ==
    {TransportFailure}
        \cup [sent : {TRUE}, status : FailureStatuses, body : {"none"}]
        \cup [sent : {TRUE}, status : {StatusOK}, body : {"readerr", "data"}]

\* os.ReadFile outcomes for the local bundle file
FileOutcomes == {"ok", "ENOENT", "EIO"}

ReadFileErr(file) ==
    IF file = "ENOENT"
    THEN <<"open: no such file or directory">>
    ELSE <<"read: input/output error">>

(***************************************************************************)
(* SchemaService                                                           *)
(***************************************************************************)
\* SchemaService.checkLocalSchema: the read error is logged and dropped
checkLocalSchema(messageName, file) ==
    IF file # "ok"
    THEN [data |-> "none", found |-> FALSE]
    ELSE [data |-> "local", found |-> TRUE]

\* a fetch that checks for 404 only and reads the body of any other answer
fetchFromBSR_NoStatusCheck(messageName, resp) ==
    IF ~resp.sent
    THEN [data |-> "none", err |-> <<"HTTP request failed: ", "transport">>]
    ELSE IF resp.status = StatusNotFound
         THEN [data |-> "none", err |-> <<"schema not found in BSR">>]
         ELSE [data |-> "remote", err |-> NoErr]

\* SchemaService.fetchFromBSR: one GET, no retry
fetchFromBSR(messageName, resp) ==
    IF ~resp.sent
    THEN [data |-> "none", err |-> <<"HTTP request failed: ", "transport">>]
    ELSE IF resp.status = StatusNotFound
         THEN [data |-> "none", err |-> <<"schema not found in BSR">>]
         ELSE IF resp.status # StatusOK
              THEN [data |-> "none",
                    err |-> <<"BSR returned status code ", StatusText(resp.status)>>]
              ELSE IF resp.body = "readerr"
                   THEN [data |-> "none",
                         err |-> <<"failed to read response body: ", "read">>]
                   ELSE [data |-> "remote", err |-> NoErr]

\* the outcome of one service call: what was resolved and from where, the
\* returned error, the steps taken in order ("local", "remote", "unmarshal",
\* "validate"), the causes of the local and remote failures as they occurred
\* inside the call, and the (success, errors) pair of ValidateProto, which is
\* (false, nil) unless the call gets as far as the evaluator
Outcome(source, err, trace, localCause, remoteCause) ==
    [source |-> source, err |-> err, trace |-> trace,
     localCause |-> localCause, remoteCause |-> remoteCause,
     success |-> FALSE, errors |-> <<>>, errorsNil |-> TRUE]

\* SchemaService.GetSchema
GetSchema(mode, messageName, file, resp) ==
    LET nameErr == validateMessageName(messageName)
        local == checkLocalSchema(messageName, file)
        remote == fetchFromBSR(messageName, resp)
        localCause == IF local.found THEN NoErr ELSE ReadFileErr(file)
    IN  IF nameErr # NoErr
        THEN Outcome("none", <<"invalid message name: ">> \o nameErr, <<>>, NoErr, NoErr)
        ELSE IF mode = BSROnly
             THEN IF remote.err # NoErr
                  THEN Outcome("none", <<"failed to fetch from BSR: ">> \o remote.err,
                               <<"remote">>, NoErr, remote.err)
                  ELSE Outcome("remote", NoErr, <<"remote">>, NoErr, NoErr)
             ELSE IF mode = LocalOnly
                  THEN IF ~local.found
                       THEN Outcome("none",
                                    <<"schema not found locally for ">> \o messageName,
                                    <<"local">>, localCause, NoErr)
                       ELSE Outcome("local", NoErr, <<"local">>, NoErr, NoErr)
                  ELSE IF local.found
                       THEN Outcome("local", NoErr, <<"local">>, NoErr, NoErr)
                       ELSE IF remote.err # NoErr
                            THEN Outcome("none",
                                         <<"failed to fetch from BSR: ">> \o remote.err,
                                         <<"local", "remote">>, localCause, remote.err)
                            ELSE Outcome("remote", NoErr, <<"local", "remote">>,
                                         localCause, NoErr)

\* SchemaHandler.handleError: the status is chosen from the message text
NotFoundChunks ==
    {"schema not found in BSR", "schema not found locally for ",
     "descriptor not found in BSR"}

SchemaHandler_handleError(err) ==
    IF HasChunk(err, {"invalid message name: ", "message name cannot be empty"})
    THEN StatusBadRequest
    ELSE IF HasChunk(err, NotFoundChunks)
         THEN StatusNotFound
         ELSE StatusInternalServerError

(***************************************************************************)
(* ValidationService: descriptor resolution                                *)
(***************************************************************************)
\* answers of the reflection endpoint: a failure, or 200 with a body that
\* fails at one of the decoding stages, or a bundle in which the requested
\* name is a message, is another kind of entity, or is absent
DescriptorBodies ==
    {"readerr", "badjson", "emptyfds", "badfds", "badfiles",
     "message", "enum", "absent"}

DescriptorResponses ==
    {TransportFailure}
        \cup [sent : {TRUE}, status : FailureStatuses, body : {"none"}]
        \cup [sent : {TRUE}, status : {StatusOK}, body : DescriptorBodies]

\* ValidationService.fetchDescriptorFromBSR: one POST, no retry; files is what
\* the decoded bundle holds under the requested name ("nil": no bundle)
fetchDescriptorFromBSR(schemaName, resp) ==
    IF ~resp.sent
    THEN [files |-> "nil", err |-> <<"HTTP request failed: ", "transport">>]
    ELSE IF resp.status = StatusNotFound
    THEN [files |-> "nil", err |-> <<"descriptor not found in BSR">>]
    ELSE IF resp.status # StatusOK
    THEN [files |-> "nil",
          err |-> <<"BSR returned status code ", StatusText(resp.status)>>]
    ELSE IF resp.body = "readerr"
    THEN [files |-> "nil", err |-> <<"failed to read response body: ", "read">>]
    ELSE IF resp.body = "badjson"
    THEN [files |-> "nil", err |-> <<"failed to unmarshal JSON response: ", "json">>]
    ELSE IF resp.body = "emptyfds"
    THEN [files |-> "nil", err |-> <<"FileDescriptorSet is empty in API response">>]
    ELSE IF resp.body = "badfds"
    THEN [files |-> "nil", err |-> <<"failed to unmarshal FileDescriptorSet: ", "proto">>]
    ELSE IF resp.body = "badfiles"
    THEN [files |-> "nil", err |-> <<"failed to create Files: ", "proto">>]
    ELSE [files |-> resp.body, err |-> NoErr]

\* protoregistry.GlobalFiles.FindDescriptorByName
FindDescriptorByName(fullName) ==
    IF fullName \in DOMAIN GlobalFiles THEN GlobalFiles[fullName] ELSE "absent"

\* ValidationService.findMessageDescriptor: the provided files first, then
\* GlobalFiles; md names the registry the descriptor came from
findMessageDescriptor(schemaName, files) ==
    IF files = "message"
    THEN [md |-> "remote", err |-> NoErr, trace |-> <<>>]
    ELSE IF FindDescriptorByName(schemaName) = "absent"
         THEN [md |-> "none", err |-> <<"proto: not found">>, trace |-> <<"local">>]
         ELSE IF FindDescriptorByName(schemaName) # "message"
              THEN [md |-> "none",
                    err |-> <<"schema name ">> \o schemaName
                               \o <<" does not refer to a message">>,
                    trace |-> <<"local">>]
              ELSE [md |-> "local", err |-> NoErr, trace |-> <<"local">>]

\* "unknown schema name: %s"
UnknownSchema(schemaName) == <<"unknown schema name: ">> \o schemaName

\* a BSROnly branch that fetches a second time when the first fetch failed
ResolveBSROnly_Retry(schemaName, resp) ==
    LET fetched == fetchDescriptorFromBSR(schemaName, resp)
        found == findMessageDescriptor(schemaName, fetched.files)
    IN  IF fetched.err # NoErr
        THEN Outcome("none",
                     <<"failed to fetch descriptor from BSR: ">> \o fetched.err,
                     <<"remote", "remote">>, NoErr, fetched.err)
        ELSE IF found.err # NoErr
             THEN Outcome("none", UnknownSchema(schemaName),
                          <<"remote">> \o found.trace, found.err, NoErr)
             ELSE Outcome(found.md, NoErr, <<"remote">> \o found.trace, NoErr, NoErr)

\* ValidationService.ValidateProto, step 1, BSROnly branch
ResolveBSROnly(schemaName, resp) ==
    LET fetched == fetchDescriptorFromBSR(schemaName, resp)
        found == findMessageDescriptor(schemaName, fetched.files)
    IN  IF fetched.err # NoErr
        THEN Outcome("none",
                     <<"failed to fetch descriptor from BSR: ">> \o fetched.err,
                     <<"remote">>, NoErr, fetched.err)
        ELSE IF found.err # NoErr
             THEN Outcome("none", UnknownSchema(schemaName),
                          <<"remote">> \o found.trace, found.err, NoErr)
             ELSE Outcome(found.md, NoErr, <<"remote">> \o found.trace, NoErr, NoErr)

\* a LocalThenBSR branch that gives up when the local name is no message
ResolveLocalThenBSR_HardLocalError(schemaName, resp) ==
    LET localFind == findMessageDescriptor(schemaName, "nil")
        fetched == fetchDescriptorFromBSR(schemaName, resp)
    IN  IF localFind.err = NoErr
        THEN Outcome(localFind.md, NoErr, localFind.trace, NoErr, NoErr)
        ELSE IF FindDescriptorByName(schemaName) = "enum" \/ fetched.files # "message"
             THEN Outcome("none", UnknownSchema(schemaName), localFind.trace,
                          localFind.err, NoErr)
             ELSE Outcome("remote", NoErr, localFind.trace \o <<"remote">>,
                          localFind.err, NoErr)

\* ValidationService.ValidateProto, step 1, LocalThenBSR branch
ResolveLocalThenBSR(schemaName, resp) ==
    LET localFind == findMessageDescriptor(schemaName, "nil")
        fetched == fetchDescriptorFromBSR(schemaName, resp)
        found == findMessageDescriptor(schemaName, fetched.files)
    IN  IF localFind.err = NoErr
        THEN Outcome(localFind.md, NoErr, localFind.trace, NoErr, NoErr)
        ELSE IF fetched.err # NoErr
        THEN Outcome("none",
                     UnknownSchema(schemaName) \o <<" (local and BSR lookup failed)">>,
                     localFind.trace \o <<"remote">>, localFind.err, fetched.err)
        ELSE IF found.err # NoErr
        THEN Outcome("none", UnknownSchema(schemaName),
                     localFind.trace \o <<"remote">> \o found.trace,
                     localFind.err, NoErr)
        ELSE Outcome(found.md, NoErr,
                     localFind.trace \o <<"remote">> \o found.trace,
                     localFind.err, NoErr)

\* a LocalOnly branch that falls back to the remote source
ResolveLocalOnly_WithFallback(schemaName, resp) ==
    ResolveLocalThenBSR(schemaName, resp)

\* ValidationService.ValidateProto, step 1, LocalOnly branch
ResolveLocalOnly(schemaName, resp) ==
    LET localFind == findMessageDescriptor(schemaName, "nil")
    IN  IF localFind.err # NoErr
        THEN Outcome("none", UnknownSchema(schemaName), localFind.trace,
                     localFind.err, NoErr)
        ELSE Outcome(localFind.md, NoErr, localFind.trace, NoErr, NoErr)

\* ValidationService.ValidateProto, step 1: the descriptor by mode
ResolveDescriptor(mode, schemaName, resp) ==
    IF mode = BSROnly
    THEN ResolveBSROnly(schemaName, resp)
    ELSE IF mode = LocalOnly
         THEN ResolveLocalOnly(schemaName, resp)
         ELSE ResolveLocalThenBSR(schemaName, resp)

(***************************************************************************)
(* JSON payloads and the lenient decode (protojson, DiscardUnknown)        *)
(***************************************************************************)
\* the message type behind every resolved descriptor: a string field with a
\* minimum length, an int32 field with a lower bound and a nested message
\* whose phone must match a pattern that the empty string does not match
Fields == {"name", "age", "contact_info"}

FieldKind == [name |-> "string", age |-> "number", contact_info |-> "object"]

\* fields that track presence: message-typed fields
PresenceFields == {"contact_info"}

MinLen == 3

MinAge == 18

\* keys a payload may carry; "extra" is not declared by the type
Keys == Fields \cup {"extra"}

Absent == [kind |-> "absent", val |-> 0]

Str(n) == [kind |-> "string", val |-> n]

Num(n) == [kind |-> "number", val |-> n]

\* a nested object, abstracted to the length of its phone
Obj(n) == [kind |-> "object", val |-> n]

\* a payload is missing (no bytes), not JSON, or an object; a string value is
\* abstracted to its length
Objects ==
    { o \in [Keys -> {Absent, Str(2), Str(3), Num(17), Num(18), Obj(0), Obj(11)}] :
        /\ o["name"] \in {Absent, Str(2), Str(3), Num(17)}
        /\ o["age"] \in {Absent, Num(17), Num(18), Str(2)}
        /\ o["contact_info"] \in {Absent, Obj(0), Obj(11)}
        /\ o["extra"] \in {Absent, Str(2)} }

NoObject == [k \in Keys |-> Absent]

Payloads ==
    [kind : {"missing", "syntax"}, obj : {NoObject}]
        \cup [kind : {"object"}, obj : Objects]

\* options that keep protojson's default of rejecting unknown fields
UnmarshalOptions_Strict == [DiscardUnknown |-> FALSE]

\* the options ValidateProto decodes with

UnmarshalOptions == [DiscardUnknown |-> TRUE]

\* a fresh dynamic message: every field reads as zero, none is populated
ZeroMessage == [val |-> [f \in Fields |-> 0], has |-> {}]

\* protojson Unmarshal into a fresh dynamic message: a syntax error or a
\* value of the wrong kind fails; an undeclared key is skipped or fails by
\* the option; a declared key that is absent leaves the zero value
Unmarshal(opts, payload) ==
    IF payload.kind # "object"
    THEN [err |-> <<"proto: syntax error">>, msg |-> ZeroMessage]
    ELSE IF \E k \in Keys \ Fields :
                payload.obj[k] # Absent /\ ~opts.DiscardUnknown
    THEN [err |-> <<"proto: unknown field">>, msg |-> ZeroMessage]
    ELSE IF \E f \in Fields :
                payload.obj[f] # Absent /\ payload.obj[f].kind # FieldKind[f]
    THEN [err |-> <<"proto: invalid value for field">>, msg |-> ZeroMessage]
    ELSE [err |-> NoErr,
          msg |-> [val |-> [f \in Fields |->
                              IF payload.obj[f] = Absent
                              THEN 0
                              ELSE payload.obj[f].val],
                   has |-> {f \in PresenceFields : payload.obj[f] # Absent}]]

(***************************************************************************)
(* ErrorHumanizer: makeFriendlyError and its helpers, on chunked text      *)
(***************************************************************************)
WS == {" "}

ErrorPrefixChunks == {"ERROR:", "error:", "Error:"}

LocatorChunks == {"<input>:1:16:"}

ContainerChunks == {"(in container '')"}

\* chunks that contain "compilation error", and those that contain it with
\* the colon the extraction pattern wants
MarkerChunks == {"compilation error: ", "compilation error"}

PatternMarkerChunks == {"compilation error: "}

ExpressionChunks == {"failed to compile expression "}

ColonChunks == {":", ": "}

IdChunks == {"comment_required_if_blocked", "age_check", "Min_Len"}

RECURSIVE DropLeadingWS(_)
DropLeadingWS(t) ==
    IF t # <<>> /\ t[1] \in WS THEN DropLeadingWS(Tail(t)) ELSE t

\* a chunk without the white space it ends in
TrimRight(chunk) ==
    CASE chunk = "compilation error: " -> "compilation error:"
      [] chunk = "failed to compile expression " -> "failed to compile expression"
      [] chunk = ": " -> ":"
      [] OTHER -> chunk

RECURSIVE DropTrailingWS(_)
DropTrailingWS(t) ==
    IF t # <<>> /\ t[Len(t)] \in WS
    THEN DropTrailingWS(SubSeq(t, 1, Len(t) - 1))
    ELSE IF t # <<>> /\ TrimRight(t[Len(t)]) # t[Len(t)]
    THEN Append(SubSeq(t, 1, Len(t) - 1), TrimRight(t[Len(t)]))
    ELSE t

\* strings.TrimSpace
TrimSpace(t) == DropTrailingWS(DropLeadingWS(t))

\* (?i)^ERROR:\s* replaced by nothing
StripErrorPrefix(t) ==
    IF t # <<>> /\ t[1] \in ErrorPrefixChunks THEN DropLeadingWS(Tail(t)) ELSE t

\* every <input>:line:col:\s* replaced by nothing
RECURSIVE StripLocators(_)
StripLocators(t) ==
    IF t = <<>>
    THEN <<>>
    ELSE IF t[1] \in LocatorChunks
         THEN StripLocators(DropLeadingWS(Tail(t)))
         ELSE <<t[1]>> \o StripLocators(Tail(t))

\* every \s*(in container '...') replaced by nothing, wherever it stands
RECURSIVE StripContainers(_)
StripContainers(t) ==
    IF t = <<>>
    THEN <<>>
    ELSE IF t[Len(t)] \in ContainerChunks
         THEN StripContainers(DropTrailingWS(SubSeq(t, 1, Len(t) - 1)))
         ELSE StripContainers(SubSeq(t, 1, Len(t) - 1)) \o <<t[Len(t)]>>

\* ValidationService.cleanupTechnicalError
cleanupTechnicalError(technical) ==
    LET cleaned == TrimSpace(StripContainers(StripLocators(StripErrorPrefix(technical))))
    IN  IF cleaned = <<>> \/ cleaned = technical THEN technical ELSE cleaned

\* positions j where "expression <id>:" stands after a "compilation error:"
IdPositions(errorMsg) ==
    { j \in 1..Len(errorMsg) :
        /\ errorMsg[j] \in IdChunks
        /\ j > 2 /\ j < Len(errorMsg)
        /\ errorMsg[j - 1] \in ExpressionChunks
        /\ errorMsg[j + 1] \in ColonChunks
        /\ \E i \in 1..(j - 2) : errorMsg[i] \in PatternMarkerChunks }

\* ValidationService.extractConstraintID: the greedy .* takes the last match
extractConstraintID(errorMsg) ==
    IF IdPositions(errorMsg) = {}
    THEN ""
    ELSE errorMsg[CHOOSE j \in IdPositions(errorMsg) :
                     \A k \in IdPositions(errorMsg) : k <= j]

\* underscores to spaces, then lower case
Readable(constraintID) ==
    CASE constraintID = "comment_required_if_blocked" -> "comment required if blocked"
      [] constraintID = "age_check" -> "age check"
      [] constraintID = "Min_Len" -> "min len"
      [] OTHER -> constraintID

\* a conversion that knows the identifiers of the static map only
constraintIDToFriendly_MapOnly(constraintID) ==
    IF constraintID = "comment_required_if_blocked"
    THEN <<"comment is required when status is TASK_STATUS_BLOCKED">>
    ELSE <<>>

\* ValidationService.constraintIDToFriendly
constraintIDToFriendly(constraintID) ==
    IF constraintID = "comment_required_if_blocked"
    THEN <<"comment is required when status is TASK_STATUS_BLOCKED">>
    ELSE <<"Validation failed: ", Readable(constraintID)>>

\* ValidationService.makeFriendlyError
makeFriendlyError(technical) ==
    IF HasChunk(technical, MarkerChunks)
    THEN IF extractConstraintID(technical) # ""
            /\ constraintIDToFriendly(extractConstraintID(technical)) # <<>>
         THEN constraintIDToFriendly(extractConstraintID(technical))
         ELSE cleanupTechnicalError(technical)
    ELSE cleanupTechnicalError(technical)

(***************************************************************************)
(* The constraint evaluator (protovalidate), as ValidateProto sees it      *)
(***************************************************************************)
\* how the evaluator answers: "rules" reports the violated rules with field
\* path and message, "bare" reports them without the Proto record, "empty"
\* signals a ValidationError that lists no violation, "compile" fails with
\* an error that is no ValidationError
EvaluatorModes == {"rules", "bare", "empty", "compile"}

Violation(hasProto, fieldPath, message, technical) ==
    [hasProto |-> hasProto, fieldPath |-> fieldPath, message |-> message,
     technical |-> technical]

NameViolation(hasProto) ==
    IF hasProto
    THEN Violation(TRUE, <<"name">>,
                   <<"value length must be at least 3 characters">>,
                   <<"name", ": ", "value length must be at least 3 characters",
                     " ", "[string.min_len]">>)
    ELSE Violation(FALSE, <<>>, <<>>, <<"[string.min_len]">>)

AgeViolation(hasProto) ==
    IF hasProto
    THEN Violation(TRUE, <<"age">>,
                   <<"value must be greater than or equal to 18">>,
                   <<"age", ": ", "value must be greater than or equal to 18",
                     " ", "[int32.gte]">>)
    ELSE Violation(FALSE, <<>>, <<>>, <<"[int32.gte]">>)

PhoneViolation(hasProto) ==
    IF hasProto
    THEN Violation(TRUE, <<"contact_info.phone">>,
                   <<"value does not match regex pattern">>,
                   <<"contact_info.phone", ": ", "value does not match regex pattern",
                     " ", "[string.pattern]">>)
    ELSE Violation(FALSE, <<>>, <<>>, <<"[string.pattern]">>)

\* a violation with a declared message and no field path (a message-level
\* rule), and one with a field path and no declared message
AdultViolation ==
    Violation(TRUE, <<>>, <<"must be an adult">>,
              <<"must be an adult", " ", "[age_check]">>)

BareFieldViolation ==
    Violation(TRUE, <<"age">>, <<>>, <<"age", ": ", " ", "[int32.gte]">>)

\* an evaluator that applies the rules of an unpopulated message field too
ShouldEvaluate_Always(f, msg) == TRUE

\* the field evaluator skips a presence-tracking field that is not populated
\* and evaluates every other field on the value it reads
ShouldEvaluate(f, msg) == f \notin PresenceFields \/ f \in msg.has

\* the violated rules of a decoded message, in field order
Violations(msg, hasProto) ==
    (IF ShouldEvaluate("name", msg) /\ msg.val["name"] < MinLen
     THEN <<NameViolation(hasProto)>> ELSE <<>>)
        \o (IF ShouldEvaluate("age", msg) /\ msg.val["age"] < MinAge
            THEN <<AgeViolation(hasProto)>> ELSE <<>>)
        \o (IF ShouldEvaluate("contact_info", msg) /\ msg.val["contact_info"] = 0
            THEN <<PhoneViolation(hasProto)>> ELSE <<>>)

CompileErrorText ==
    <<"compilation error: ", "failed to compile expression ", "age_check", ": ",
      "ERROR:", " ", "<input>:1:16:", " ", "undeclared reference",
      " ", "(in container '')">>

\* validator.Validate(msg): kind "nil" is success
Validate(msg, ev) ==
    IF ev = "compile"
    THEN [kind |-> "error", Violations |-> <<>>, text |-> CompileErrorText]
    ELSE IF ev = "empty"
    THEN [kind |-> "ValidationError", Violations |-> <<>>,
          text |-> <<"validation error:">>]
    ELSE IF Violations(msg, ev = "rules") = <<>>
    THEN [kind |-> "nil", Violations |-> <<>>, text |-> NoErr]
    ELSE [kind |-> "ValidationError", Violations |-> Violations(msg, ev = "rules"),
          text |-> <<"validation error:">>]

\* an entry that shows the friendly text in both places
ValidationError_FriendlyTwice(friendly, technical) ==
    [Friendly |-> friendly, Technical |-> friendly]

ValidationError(friendly, technical) ==
    [Friendly |-> friendly, Technical |-> technical]

\* a loop body that classifies the technical text whenever a field path is
\* missing
Humanize_PathRequired(violation) ==
    IF violation.hasProto /\ violation.message # <<>> /\ violation.fieldPath # <<>>
    THEN [Friendly |-> <<"field '">> \o violation.fieldPath \o <<"': ">>
                          \o violation.message,
          Technical |-> violation.technical]
    ELSE [Friendly |-> makeFriendlyError(violation.technical),
          Technical |-> violation.technical]

\* the loop body of collectValidationErrors
Humanize(violation) ==
    IF ~violation.hasProto
    THEN ValidationError(makeFriendlyError(violation.technical), violation.technical)
    ELSE IF violation.message # <<>>
         THEN IF violation.fieldPath # <<>>
              THEN ValidationError(<<"field '">> \o violation.fieldPath \o <<"': ">>
                                       \o violation.message,
                                   violation.technical)
              ELSE ValidationError(violation.message, violation.technical)
         ELSE ValidationError(makeFriendlyError(violation.technical),
                              violation.technical)

\* a collector without the fallback for an empty violation list
collectValidationErrors_NoFallback(verr) ==
    [i \in 1..Len(verr.Violations) |-> Humanize(verr.Violations[i])]

\* ValidationService.collectValidationErrors
collectValidationErrors(verr) ==
    IF verr.Violations # <<>>
    THEN [i \in 1..Len(verr.Violations) |-> Humanize(verr.Violations[i])]
    ELSE <<ValidationError(makeFriendlyError(verr.text), verr.text)>>

\* ValidateProto, step 5: the error list for a failed evaluation
CollectErrors(verdict) ==
    IF verdict.kind = "ValidationError"
    THEN collectValidationErrors(verdict)
    ELSE <<ValidationError(makeFriendlyError(verdict.text), verdict.text)>>

\* a decode step that reports the decode failure as a validation error
DecodeAndValidate_Mixed(resolved, jsonPayload, ev) ==
    LET decoded == Unmarshal(UnmarshalOptions, jsonPayload)
        verdict == Validate(decoded.msg, ev)
    IN  IF decoded.err # NoErr \/ verdict.kind # "nil"
        THEN [resolved EXCEPT !.trace = @ \o <<"unmarshal", "validate">>,
                              !.errors = <<ValidationError(decoded.err, decoded.err)>>,
                              !.errorsNil = FALSE]
        ELSE [resolved EXCEPT !.trace = @ \o <<"unmarshal", "validate">>,
                              !.success = TRUE,
                              !.errorsNil = FALSE]

\* ValidationService.ValidateProto, steps 2 to 5, for a resolved descriptor
DecodeAndValidate(resolved, jsonPayload, ev) ==
    LET decoded == Unmarshal(UnmarshalOptions, jsonPayload)
        verdict == Validate(decoded.msg, ev)
    IN  IF decoded.err # NoErr
        THEN [resolved EXCEPT !.err = <<"failed to unmarshal JSON: ">> \o decoded.err,
                              !.trace = @ \o <<"unmarshal">>]
        ELSE IF verdict.kind # "nil"
        THEN [resolved EXCEPT !.trace = @ \o <<"unmarshal", "validate">>,
                              !.errors = CollectErrors(verdict),
                              !.errorsNil = FALSE]
        ELSE [resolved EXCEPT !.trace = @ \o <<"unmarshal", "validate">>,
                              !.success = TRUE,
                              !.errorsNil = FALSE]

\* ValidationService.ValidateProto
ValidateProto(mode, schemaName, jsonPayload, resp, ev) ==
    IF ResolveDescriptor(mode, schemaName, resp).err # NoErr
    THEN ResolveDescriptor(mode, schemaName, resp)
    ELSE DecodeAndValidate(ResolveDescriptor(mode, schemaName, resp), jsonPayload, ev)

\* a classification that treats a failed remote fetch as a server fault
isClientError_FetchIsServerFault(err) ==
    ~HasChunk(err, {"failed to fetch descriptor from BSR: "})

\* isClientError
isClientError(err) == TRUE

(***************************************************************************)
(* Requests.  last is the request being answered: its inputs, the answers  *)
(* the sources gave to the calls it made, the service outcome and the HTTP *)
(* status; it is dropped when the handler returns.  prev is used only by   *)
(* the paired runs below, which answer two requests one after the other.   *)
(***************************************************************************)
\* the header lines of a remote call
ContentTypeJSON == <<"Content-Type: ", "application/json">>

\* "Bearer %s"
Authorization(token) == <<"Authorization: ", "Bearer ">> \o token

\* fetchDescriptorFromBSR: the headers of the POST
DescriptorFetchHeaders(token) ==
    {ContentTypeJSON} \cup (IF token # <<>> THEN {Authorization(token)} ELSE {})

\* a schema fetch that never sends the credential
SchemaFetchHeaders_Anonymous(token) == {}

\* fetchFromBSR: the headers of the GET
SchemaFetchHeaders(token) == IF token # <<>> THEN {Authorization(token)} ELSE {}

\* ListCommits: the headers of the POST
CommitsFetchHeaders(token) ==
    {ContentTypeJSON} \cup (IF token # <<>> THEN {Authorization(token)} ELSE {})

\* the headers of the remote call of a request, if it made one
RemoteHeaders(op, trace) ==
    IF ~(\E i \in 1..Len(trace) : trace[i] = "remote")
    THEN {}
    ELSE IF op = "validate" THEN DescriptorFetchHeaders(bsrToken)
    ELSE IF op = "schema" THEN SchemaFetchHeaders(bsrToken)
    ELSE CommitsFetchHeaders(bsrToken)

\* no remote call was made
NoResp == [sent |-> FALSE, status |-> -1, body |-> "none"]

NoOutcome == Outcome("none", NoErr, <<>>, NoErr, NoErr)

InTrace(trace, step) == \E i \in 1..Len(trace) : trace[i] = step

Count(trace, step) == Cardinality({i \in 1..Len(trace) : trace[i] = step})

\* the directory of the schema bundles below the base path
BundleDirectory == << <<"base">>, <<"gen">>, <<"jsonschema">> >>

BundleSuffix == <<".schema.bundle.json">>

\* the elements of a path text between its separators
RECURSIVE PathSegments(_)
PathSegments(text) ==
    IF ~ContainsChar(text, "/") THEN <<text>>
    ELSE LET cut == CHOOSE i \in 1..Len(text) :
                       /\ text[i] = "/"
                       /\ \A j \in 1..(i - 1) : text[j] # "/"
         IN  <<SubSeq(text, 1, cut - 1)>>
                 \o PathSegments(SubSeq(text, cut + 1, Len(text)))

\* filepath.Clean on the elements of a path: empty and "." elements are
\* dropped and ".." removes the element before it
RECURSIVE Clean(_, _)
Clean(done, segments) ==
    IF segments = <<>> THEN done
    ELSE IF Head(segments) \in {<<>>, <<".">>}
    THEN Clean(done, Tail(segments))
    ELSE IF Head(segments) = <<".", ".">> /\ done # <<>>
    THEN Clean(SubSeq(done, 1, Len(done) - 1), Tail(segments))
    ELSE Clean(Append(done, Head(segments)), Tail(segments))

\* the file that checkLocalSchema reads: filepath.Join of the base path,
\* "gen", "jsonschema" and "<name>.schema.bundle.json"
LocalSchemaPath(messageName) ==
    Clean(<<>>, BundleDirectory \o PathSegments(messageName \o BundleSuffix))

URLPrefix ==
    <<"https://buf.build/gen/archive/", "org", "/", "module",
      "/bufbuild/protoschema-jsonschema/raw/latest/">>

\* SchemaService.buildBSRURL
buildBSRURL(messageName) == URLPrefix \o messageName \o BundleSuffix

\* the file and the URL that a schema request touches
SchemaPath(op, name, trace) ==
    IF op \in {"schema", "locate"} /\ (\E i \in 1..Len(trace) : trace[i] = "local")
    THEN LocalSchemaPath(name)
    ELSE <<>>

SchemaURL(op, name, trace) ==
    IF op \in {"schema", "locate"} /\ (\E i \in 1..Len(trace) : trace[i] = "remote")
    THEN buildBSRURL(name)
    ELSE <<>>

Request(op, name, payload, http, called, resp, file, ev, out) ==
    [op |-> op, name |-> name, payload |-> payload, http |-> http,
     called |-> called,
     resp |-> IF InTrace(out.trace, "remote") THEN resp ELSE NoResp,
     file |-> IF op = "schema" /\ InTrace(out.trace, "local") THEN file ELSE "none",
     ev |-> IF InTrace(out.trace, "validate") THEN ev ELSE "none",
     headers |-> RemoteHeaders(op, out.trace),
     path |-> SchemaPath(op, name, out.trace),
     url |-> SchemaURL(op, name, out.trace),
     out |-> out]

Idle ==
    Request("idle", <<>>, [kind |-> "missing", obj |-> NoObject], 0, FALSE,
            NoResp, "none", "none", NoOutcome)

\* ValidationHandler.ValidateProto, for a POST whose body decodes
ValidationHandler_ValidateProto(schemaName, payload, resp, ev) ==
    LET out == ValidateProto(validationMode, schemaName, payload, resp, ev)
    IN  IF schemaName = <<>> \/ payload.kind = "missing"
        THEN Request("validate", schemaName, payload, StatusBadRequest, FALSE,
                     resp, "none", ev, NoOutcome)
        ELSE IF out.err # NoErr
        THEN Request("validate", schemaName, payload,
                     IF isClientError(out.err)
                     THEN StatusBadRequest
                     ELSE StatusInternalServerError,
                     TRUE, resp, "none", ev, out)
        ELSE Request("validate", schemaName, payload, StatusOK, TRUE,
                     resp, "none", ev, out)

\* SchemaHandler.GetSchema, for a GET under /api/v1/schema/ (none of Names
\* holds a character that url.QueryUnescape would change)
SchemaHandler_GetSchema(messageName, file, resp) ==
    LET out == GetSchema(schemaMode, messageName, file, resp)
    IN  IF messageName = <<>>
        THEN Request("schema", messageName, Idle.payload, StatusBadRequest, FALSE,
                     resp, file, "none", NoOutcome)
        ELSE IF out.err # NoErr
        THEN Request("schema", messageName, Idle.payload,
                     SchemaHandler_handleError(out.err), TRUE, resp, file, "none", out)
        ELSE Request("schema", messageName, Idle.payload, StatusOK, TRUE,
                     resp, file, "none", out)

(***************************************************************************)
(* Commit history: CommitsHandler.GetCommits and CommitsService.ListCommits *)
(* An int is kept as sign and magnitude, the magnitude in two limbs        *)
(* (hi * Limb + lo), so that values beyond 32 bits can be told apart.      *)
(***************************************************************************)
DigitChars == <<"0", "1", "2", "3", "4", "5", "6", "7", "8", "9">>

IsDigit(c) == \E i \in 1..Len(DigitChars) : DigitChars[i] = c

DigitValue(c) == (CHOOSE i \in 1..Len(DigitChars) : DigitChars[i] = c) - 1

Limb == 65536

Number(neg, hi, lo) == [neg |-> neg, hi |-> hi, lo |-> lo]

\* the decimal value of a digit string, most significant digit first
RECURSIVE Magnitude(_, _)
Magnitude(digits, acc) ==
    IF digits = <<>>
    THEN acc
    ELSE LET low == acc.lo * 10 + DigitValue(digits[1])
         IN  Magnitude(Tail(digits),
                       [hi |-> acc.hi * 10 + (low \div Limb), lo |-> low % Limb])

\* strconv.Atoi: an optional sign and at least one digit, nothing else (the
\* strings of PageSizeStrings all fit an int, so no range error arises)
Atoi(str) ==
    LET signed == str # <<>> /\ str[1] \in {"+", "-"}
        body == IF signed THEN Tail(str) ELSE str
        mag == Magnitude(body, [hi |-> 0, lo |-> 0])
    IN  IF body = <<>> \/ \E i \in 1..Len(body) : ~IsDigit(body[i])
        THEN [err |-> TRUE, n |-> Number(FALSE, 0, 0)]
        ELSE [err |-> FALSE,
              n |-> Number(signed /\ str[1] = "-" /\ (mag.hi > 0 \/ mag.lo > 0),
                           mag.hi, mag.lo)]

\* n > 0
IsPositive(n) == ~n.neg /\ (n.hi > 0 \/ n.lo > 0)

\* the handler's default page size
DefaultPageSize == Number(FALSE, 0, 26)

\* int32(n): the low 32 bits, as two 16-bit halves (two's complement)
Int32(n) ==
    LET h == n.hi % Limb
    IN  IF ~n.neg
        THEN [hi |-> h, lo |-> n.lo]
        ELSE IF n.lo = 0
             THEN [hi |-> (Limb - h) % Limb, lo |-> 0]
             ELSE [hi |-> Limb - 1 - h, lo |-> Limb - n.lo]

\* what the pageSize query parameter may hold; the empty string is what
\* query.Get returns for a request without the parameter
PageSizeStrings ==
    { <<>>, <<"0">>, <<"5">>, <<"+", "5">>, <<"-", "1">>, <<"-", "0">>,
      <<"0", "0", "7">>, <<"a">>, <<"2", ".", "5">>, <<"5", " ">>, <<"-">>,
      <<"2", "1", "4", "7", "4", "8", "3", "6", "4", "8">>,
      <<"4", "2", "9", "4", "9", "6", "7", "2", "9", "6">> }

Labels == {<<>>, <<"main">>, <<"v1">>, <<"unauthorized">>, <<"Invalid">>}

PageTokens == {<<>>, <<"tok">>}

\* answers of the label-history endpoint: a failure, or 200 with a body that
\* cannot be read to its end, is no JSON, ends early, or is a page
CommitsResponses ==
    {TransportFailure}
        \cup [sent : {TRUE}, status : FailureStatuses, body : {"none"}]
        \cup [sent : {TRUE}, status : {StatusOK},
              body : {"readerr", "syntax", "eof", "page"}]

\* the JSON body of the POST: omitempty drops a zero pageSize and an empty
\* pageToken
ListLabelHistoryRequest(pageSize, label, pageToken) ==
    [PageSize |-> Int32(pageSize),
     Label |-> label,
     Order |-> "ORDER_DESC",
     PageToken |-> pageToken,
     omitted |-> (IF Int32(pageSize) = [hi |-> 0, lo |-> 0] THEN {"pageSize"} ELSE {})
                     \cup (IF label = <<>> THEN {"label"} ELSE {})
                     \cup (IF pageToken = <<>> THEN {"pageToken"} ELSE {})]

NoRequest == ListLabelHistoryRequest(Number(FALSE, 0, 0), <<>>, <<>>)

CommitsOutcome(err, page, trace, request) ==
    [err |-> err, page |-> page, trace |-> trace, request |-> request]

\* a client without the branches for 401 and 404: both fall under the
\* unexpected status codes
ListCommits_NoStatusBranches(pageSize, label, pageToken, resp) ==
    LET request == ListLabelHistoryRequest(pageSize, label, pageToken)
        failed(err) == CommitsOutcome(err, "none", <<"remote">>, request)
    IN  IF ~resp.sent
        THEN failed(<<"HTTP request failed: ", "transport">>)
        ELSE IF resp.status # StatusOK
        THEN failed(<<"Buf API returned status code ", StatusText(resp.status)>>)
        ELSE IF resp.body = "readerr"
        THEN failed(<<"failed to read response body: ", "read">>)
        ELSE IF resp.body \in {"syntax", "eof"}
        THEN failed(<<"failed to unmarshal JSON response: ", "invalid character">>)
        ELSE CommitsOutcome(NoErr, "page", <<"remote">>, request)

\* CommitsService.ListCommits: one POST, no retry
ListCommits(pageSize, label, pageToken, resp) ==
    LET request == ListLabelHistoryRequest(pageSize, label, pageToken)
        failed(err) == CommitsOutcome(err, "none", <<"remote">>, request)
    IN  IF ~resp.sent
        THEN failed(<<"HTTP request failed: ", "transport">>)
        ELSE IF resp.status = StatusUnauthorized
        THEN failed(<<"unauthorized: invalid or missing BUF_TOKEN">>)
        ELSE IF resp.status = StatusNotFound
        THEN failed(<<"label not found: ">> \o label)
        ELSE IF resp.status # StatusOK
        THEN failed(<<"Buf API returned status code ", StatusText(resp.status)>>)
        ELSE IF resp.body = "readerr"
        THEN failed(<<"failed to read response body: ", "read">>)
        ELSE IF resp.body = "syntax"
        THEN failed(<<"failed to unmarshal JSON response: ", "invalid character">>)
        ELSE IF resp.body = "eof"
        THEN failed(<<"failed to unmarshal JSON response: ",
                      "unexpected end of JSON input">>)
        ELSE CommitsOutcome(NoErr, "page", <<"remote">>, request)

\* the chunks that hold "unauthorized" or "BUF_TOKEN", "not found", and
\* "Invalid" or "invalid"
UnauthorizedChunks == {"unauthorized: invalid or missing BUF_TOKEN", "unauthorized"}

LabelNotFoundChunks == {"label not found: "}

InvalidChunks ==
    {"unauthorized: invalid or missing BUF_TOKEN", "invalid character", "Invalid"}

\* CommitsHandler.handleError: the status is chosen from the message text
CommitsHandler_handleError(err) ==
    IF HasChunk(err, UnauthorizedChunks)
    THEN StatusUnauthorized
    ELSE IF HasChunk(err, LabelNotFoundChunks)
    THEN StatusNotFound
    ELSE IF HasChunk(err, InvalidChunks)
    THEN StatusBadRequest
    ELSE StatusInternalServerError

CommitsRequest(pageSizeStr, label, pageToken, http, called, resp, out) ==
    [op |-> "commits", pageSizeStr |-> pageSizeStr, label |-> label,
     pageToken |-> pageToken, http |-> http, called |-> called,
     resp |-> IF InTrace(out.trace, "remote") THEN resp ELSE NoResp,
     headers |-> RemoteHeaders("commits", out.trace),
     out |-> out]

\* a handler that falls back to the default page size when the parameter
\* cannot be used
CommitsHandler_GetCommits_Lenient(pageSizeStr, labelParam, pageToken, resp) ==
    LET parsed == Atoi(pageSizeStr)
        pageSize == IF pageSizeStr # <<>> /\ ~parsed.err /\ IsPositive(parsed.n)
                    THEN parsed.n
                    ELSE DefaultPageSize
        label == IF labelParam = <<>> THEN <<"main">> ELSE labelParam
        out == ListCommits(pageSize, label, pageToken, resp)
    IN  CommitsRequest(pageSizeStr, labelParam, pageToken,
                       IF out.err # NoErr
                       THEN CommitsHandler_handleError(out.err)
                       ELSE StatusOK,
                       TRUE, resp, out)

\* CommitsHandler.GetCommits, for a GET
CommitsHandler_GetCommits(pageSizeStr, labelParam, pageToken, resp) ==
    LET parsed == Atoi(pageSizeStr)
        pageSize == IF pageSizeStr # <<>> THEN parsed.n ELSE DefaultPageSize
        label == IF labelParam = <<>> THEN <<"main">> ELSE labelParam
        out == ListCommits(pageSize, label, pageToken, resp)
    IN  IF pageSizeStr # <<>> /\ (parsed.err \/ ~IsPositive(parsed.n))
        THEN CommitsRequest(pageSizeStr, labelParam, pageToken, StatusBadRequest,
                            FALSE, resp,
                            CommitsOutcome(NoErr, "none", <<>>, NoRequest))
        ELSE IF out.err # NoErr
        THEN CommitsRequest(pageSizeStr, labelParam, pageToken,
                            CommitsHandler_handleError(out.err), TRUE, resp, out)
        ELSE CommitsRequest(pageSizeStr, labelParam, pageToken, StatusOK, TRUE,
                            resp, out)

\* what the compiled-in registry holds under a name
RegistryEntries == {"absent", "message", "enum"}

(***************************************************************************)
(* Startup: main reads the environment once and constructs the services    *)
(***************************************************************************)
\* strings.ToLower on the values below
ToLower(chunk) ==
    CASE chunk = "BSR-Only" -> "bsr-only"
      [] chunk = "LOCAL-ONLY" -> "local-only"
      [] OTHER -> chunk

\* what a mode variable may hold; the empty text is an unset variable
ModeValues ==
    { <<>>, <<"local-then-bsr">>, <<"bsr-only">>, <<"local-only">>,
      <<"BSR-Only">>, <<" ", "LOCAL-ONLY", " ">>, <<"remote">> }

\* the values that name a mode as the README spells it
PlainModeValues == {<<"local-then-bsr">>, <<"bsr-only">>, <<"local-only">>}

NoToken == <<>>

Tokens == {NoToken, <<"secret">>}

\* config.GetEnv
GetEnv(key, defaultValue) == IF env[key] = <<>> THEN defaultValue ELSE env[key]

\* config.GetSchemaSourceMode
GetSchemaSourceMode(context) ==
    LET envVar == IF context = "validation"
                  THEN "VALIDATION_SOURCE_MODE"
                  ELSE "SCHEMA_SOURCE_MODE"
        defaultMode == <<"local-then-bsr">>
        trimmed == TrimSpace(GetEnv(envVar, defaultMode))
        modeStr == [i \in 1..Len(trimmed) |-> ToLower(trimmed[i])]
    IN  IF modeStr = <<"bsr-only">> THEN BSROnly
        ELSE IF modeStr = <<"local-only">> THEN LocalOnly
        ELSE LocalThenBSR

\* main: the services are constructed from the environment
Startup(modeValues, tokens) ==
    /\ env \in [VALIDATION_SOURCE_MODE : modeValues,
                 SCHEMA_SOURCE_MODE : modeValues,
                 BUF_TOKEN : tokens]
    /\ bsrToken = GetEnv("BUF_TOKEN", NoToken)
    /\ validationMode = GetSchemaSourceMode("validation")
    /\ schemaMode = GetSchemaSourceMode("schema")
    /\ GlobalFiles \in [RegisteredNames -> RegistryEntries]
    /\ last = Idle
    /\ prev = Idle

\* both mode variables spelled out and no credential in the environment
Init == Startup(PlainModeValues, {NoToken})

\* both mode variables spelled out, with or without a credential
InitAuth == Startup(PlainModeValues, Tokens)

\* any environment
InitConfig == Startup(ModeValues, Tokens)

Validate_Request ==
    /\ last.op = "idle"
    /\ \E schemaName \in Names, payload \in Payloads,
          resp \in DescriptorResponses, ev \in EvaluatorModes :
          last' = ValidationHandler_ValidateProto(schemaName, payload, resp, ev)
    /\ UNCHANGED <<env, bsrToken, validationMode, schemaMode, GlobalFiles, prev>>

GetSchema_Request ==
    /\ last.op = "idle"
    /\ \E messageName \in Names, file \in FileOutcomes, resp \in SchemaResponses :
          last' = SchemaHandler_GetSchema(messageName, file, resp)
    /\ UNCHANGED <<env, bsrToken, validationMode, schemaMode, GlobalFiles, prev>>

GetCommits_Request ==
    /\ last.op = "idle"
    /\ \E pageSizeStr \in PageSizeStrings, label \in Labels,
          pageToken \in PageTokens, resp \in CommitsResponses :
          last' = CommitsHandler_GetCommits(pageSizeStr, label, pageToken, resp)
    /\ UNCHANGED <<env, bsrToken, validationMode, schemaMode, GlobalFiles, prev>>

\* the handler returns; nothing of the request is kept
Return ==
    /\ last.op # "idle"
    /\ last' = Idle
    /\ UNCHANGED <<env, bsrToken, validationMode, schemaMode, GlobalFiles, prev>>

Next == Validate_Request \/ GetSchema_Request \/ GetCommits_Request \/ Return

Spec == Init /\ [][Next]_vars

\* the same requests, served with or without a credential
SpecAuth == InitAuth /\ [][Next]_vars

(***************************************************************************)
(* Paired runs: the same validate request answered twice against the same  *)
(* sources, the second time with one undeclared key added to the payload.  *)
(***************************************************************************)
ExtraValues == {Str(2), Num(17)}

WithKey(payload, k, v) == [payload EXCEPT !.obj[k] = v]

Validate_WithExtraKey ==
    /\ last.op = "idle"
    /\ prev.op = "idle"
    /\ \E schemaName \in Names, payload \in Payloads,
          resp \in DescriptorResponses, ev \in EvaluatorModes,
          k \in Keys \ Fields, v \in ExtraValues :
          /\ payload.kind = "object"
          /\ payload.obj[k] = Absent
          /\ prev' = ValidationHandler_ValidateProto(schemaName, payload, resp, ev)
          /\ last' = ValidationHandler_ValidateProto(
                         schemaName, WithKey(payload, k, v), resp, ev)
    /\ UNCHANGED <<env, bsrToken, validationMode, schemaMode, GlobalFiles>>

ReturnBoth ==
    /\ last.op # "idle"
    /\ prev.op # "idle"
    /\ last' = Idle
    /\ prev' = Idle
    /\ UNCHANGED <<env, bsrToken, validationMode, schemaMode, GlobalFiles>>

NextLenient == Validate_WithExtraKey \/ ReturnBoth

SpecLenient == Init /\ [][NextLenient]_vars

(***************************************************************************)
(* Paired runs: the same validate request answered twice, first with one   *)
(* declared field left out of the payload, then with that field set to its *)
(* zero value ("", 0, or the empty object).                                *)
(***************************************************************************)
Zero(f) ==
    CASE FieldKind[f] = "string" -> Str(0)
      [] FieldKind[f] = "number" -> Num(0)
      [] FieldKind[f] = "object" -> Obj(0)

Validate_WithZeroField ==
    /\ last.op = "idle"
    /\ prev.op = "idle"
    /\ \E schemaName \in Names, payload \in Payloads,
          resp \in DescriptorResponses, ev \in EvaluatorModes, f \in Fields :
          /\ payload.kind = "object"
          /\ payload.obj[f] = Absent
          /\ prev' = ValidationHandler_ValidateProto(schemaName, payload, resp, ev)
          /\ last' = ValidationHandler_ValidateProto(
                         schemaName, WithKey(payload, f, Zero(f)), resp, ev)
    /\ UNCHANGED <<env, bsrToken, validationMode, schemaMode, GlobalFiles>>

NextZero == Validate_WithZeroField \/ ReturnBoth

SpecZero == Init /\ [][NextZero]_vars

(***************************************************************************)
(* Startup from any environment, followed by the source resolution of one  *)
(* validate or getSchema call.                                             *)
(***************************************************************************)
Resolve_Descriptor ==
    /\ last.op = "idle"
    /\ \E schemaName \in Names \ {<<>>}, resp \in DescriptorResponses :
          last' = Request("resolve", schemaName, Idle.payload, 0, TRUE, resp,
                          "none", "none",
                          ResolveDescriptor(validationMode, schemaName, resp))
    /\ UNCHANGED <<env, bsrToken, validationMode, schemaMode, GlobalFiles, prev>>

Resolve_Schema ==
    /\ last.op = "idle"
    /\ \E messageName \in Names \ {<<>>}, file \in FileOutcomes,
          resp \in SchemaResponses :
          last' = Request("locate", messageName, Idle.payload, 0, TRUE, resp,
                          file, "none",
                          GetSchema(schemaMode, messageName, file, resp))
    /\ UNCHANGED <<env, bsrToken, validationMode, schemaMode, GlobalFiles, prev>>

NextConfig == Resolve_Descriptor \/ Resolve_Schema \/ Return

SpecConfig == InitConfig /\ [][NextConfig]_vars

(***************************************************************************)
(* Repeated runs: a validate request answered, and then the same request   *)
(* answered again by the service as the first answer left it, with the     *)
(* sources answering as before.                                            *)
(***************************************************************************)
\* a service that keeps a remotely resolved message in the registry
RegistryAfterValidate_Caching(schemaName, out) ==
    IF out.err = NoErr /\ out.source = "remote" /\ schemaName \in DOMAIN GlobalFiles
    THEN [GlobalFiles EXCEPT ![schemaName] = "message"]
    ELSE GlobalFiles

\* the compiled-in registry after a validate call: protodesc.NewFiles builds
\* a registry of its own for the fetched bundle and nothing is registered
RegistryAfterValidate(schemaName, out) == GlobalFiles

\* a service that stops asking the remote source once it has answered
ModeAfterValidate_GoesLocal(out) ==
    IF out.err = NoErr /\ InTrace(out.trace, "remote")
    THEN LocalOnly
    ELSE validationMode

\* the mode after a validate call: it is set by NewValidationService only
ModeAfterValidate(out) == validationMode

Validate_First ==
    /\ last.op = "idle"
    /\ prev.op = "idle"
    /\ \E schemaName \in Names, payload \in Payloads,
          resp \in DescriptorResponses, ev \in EvaluatorModes :
          /\ prev' = ValidationHandler_ValidateProto(schemaName, payload, resp, ev)
          /\ GlobalFiles' = RegistryAfterValidate(schemaName, prev'.out)
          /\ validationMode' = ModeAfterValidate(prev'.out)
    /\ UNCHANGED <<env, bsrToken, schemaMode, last>>

\* the same name and payload again; the sources and the evaluator answer as
\* they answered the first request
Validate_Again ==
    /\ last.op = "idle"
    /\ prev.op = "validate"
    /\ \E resp \in DescriptorResponses, ev \in EvaluatorModes :
          /\ prev.resp \in {NoResp, resp}
          /\ prev.ev \in {"none", ev}
          /\ last' = ValidationHandler_ValidateProto(prev.name, prev.payload, resp, ev)
          /\ GlobalFiles' = RegistryAfterValidate(prev.name, last'.out)
          /\ validationMode' = ModeAfterValidate(last'.out)
    /\ UNCHANGED <<env, bsrToken, schemaMode, prev>>

NextRepeat == Validate_First \/ Validate_Again \/ ReturnBoth

SpecRepeat == Init /\ [][NextRepeat]_vars

(***************************************************************************)
(* The humanizer on its own: collectValidationErrors and the error list of *)
(* ValidateProto applied to what an evaluator can hand over: violations    *)
(* with or without the Proto record, field path and declared message, and  *)
(* any technical text.                                                     *)
(***************************************************************************)
MaxViolations == 2

\* technical texts: rule texts, compilation errors with a mapped, an
\* unmapped and no constraint id, texts that the cleanup shortens, texts it
\* would shorten to nothing, and the empty text
TechnicalTexts ==
    { <<>>,
      <<" ">>,
      <<"ERROR:">>,
      <<"(in container '')">>,
      <<"validation error:">>,
      <<"ERROR:", " ", "undeclared reference">>,
      <<"undeclared reference", " ", "(in container '')">>,
      <<"compilation error: ", "undeclared reference">>,
      <<"compilation error: ", "failed to compile expression ",
        "comment_required_if_blocked", ": ", "undeclared reference">>,
      CompileErrorText,
      <<"compilation error: ", "failed to compile expression ", "Min_Len", ": ",
        "undeclared reference">>,
      <<"compilation error", " ", "failed to compile expression ", "age_check",
        ": ", "ERROR:", " ", "undeclared reference">>,
      <<"compilation error: ", "failed to compile expression ", "age_check", ": ",
        "failed to compile expression ", "comment_required_if_blocked", ": ",
        "undeclared reference">>,
      <<"compilation error: ", "failed to compile expression ", "age_check">>,
      <<"undeclared reference", " ", "(in container '')", " ", "in expression">>,
      <<" ", "ERROR:", " ", "undeclared reference", " ">>,
      <<"error:", " ", "<input>:1:16:", " ", "undeclared reference", " ",
        "<input>:1:16:", " ", "(in container '')">>,
      <<"ERROR:", " ", "(in container '')">>,
      NameViolation(TRUE).technical,
      AgeViolation(FALSE).technical }

\* a violation without the Proto record has neither field path nor message
SyntheticViolations ==
    { v \in [hasProto : BOOLEAN,
             fieldPath : {<<>>, <<"age">>},
             message : {<<>>, <<"must be an adult">>},
             technical : TechnicalTexts] :
        ~v.hasProto => (v.fieldPath = <<>> /\ v.message = <<>>) }

\* the violations that the lists below are built from
ListedViolations ==
    { NameViolation(TRUE), AgeViolation(TRUE), AgeViolation(FALSE),
      AdultViolation, BareFieldViolation,
      Violation(FALSE, <<>>, <<>>, CompileErrorText),
      Violation(TRUE, <<>>, <<>>, <<>>) }

ViolationLists ==
    UNION { [1..n -> ListedViolations] : n \in 0..MaxViolations }

\* what Validate can return other than nil
SyntheticVerdicts ==
    [kind : {"ValidationError"}, Violations : ViolationLists,
     text : {<<"validation error:">>, <<>>}]
        \cup [kind : {"error"}, Violations : {<<>>}, text : TechnicalTexts]

Humanize_Violation ==
    /\ last.op = "idle"
    /\ \E v \in SyntheticViolations :
          last' = [op |-> "humanize", violation |-> v,
                   out |-> collectValidationErrors(
                               [kind |-> "ValidationError", Violations |-> <<v>>,
                                text |-> <<"validation error:">>])]
    /\ UNCHANGED <<env, bsrToken, validationMode, schemaMode, GlobalFiles, prev>>

Collect_Errors ==
    /\ last.op = "idle"
    /\ \E verdict \in SyntheticVerdicts :
          last' = [op |-> "collect", verdict |-> verdict,
                   out |-> CollectErrors(verdict)]
    /\ UNCHANGED <<env, bsrToken, validationMode, schemaMode, GlobalFiles, prev>>

NextHumanize == Humanize_Violation \/ Collect_Errors \/ Return

SpecHumanize == Init /\ [][NextHumanize]_vars

(***************************************************************************)
(* Listing the message types of the registry                               *)
(***************************************************************************)
\* how deep messages nest, how many messages a message nests and how many
\* top-level messages the registered files declare
MaxDepth == 2

MaxNested == 1

MaxTop == 2

\* the namespace that ListProtoFiles lists
NamespaceChunks == <<"proto", ".">>

\* strings.HasPrefix(fullyQualifiedName, "proto.")
InNamespace(fullName) ==
    /\ Len(fullName) >= Len(NamespaceChunks)
    /\ SubSeq(fullName, 1, Len(NamespaceChunks)) = NamespaceChunks

\* full names of message descriptors; the last chunk is the simple name
FullNames ==
    { <<"proto", ".", "SimpleUser">>,
      <<"proto", ".", "SimpleUser", ".", "HTTPInfo">>,
      <<"other", ".", "user">> }

\* the characters of a simple name
NameRunes ==
    [ SimpleUser |-> <<"S", "i", "m", "p", "l", "e", "U", "s", "e", "r">>,
      HTTPInfo |-> <<"H", "T", "T", "P", "I", "n", "f", "o">>,
      user |-> <<"u", "s", "e", "r">> ]

UpperRunes == {"S", "U", "H", "T", "P", "I"}

\* leading comments as lines of chunks; no line is no comment
NoComment == <<>>

DocComment == << <<" ", "A simple user">> >>

CommentTexts ==
    { NoComment,
      DocComment,
      << <<" ">> >>,
      << <<"//">>, <<" ", "/*", "*/", " ">> >>,
      << <<"//", " ", "A simple user">>, <<" ">>,
         <<"/*", " ", "with contact info", " ", "*/">> >>,
      << <<"*/", "A simple user", "//">> >> }

\* the comments that the descriptors of the listed registries carry
TreeComments == {NoComment, DocComment}

RECURSIVE SeqsUpTo(_, _)
SeqsUpTo(S, n) ==
    IF n = 0 THEN {<<>>}
    ELSE SeqsUpTo(S, n - 1) \cup [1..n -> S]

\* message descriptors that nest at most depth levels
RECURSIVE MessageDescriptors(_)
MessageDescriptors(depth) ==
    IF depth = 0 THEN {}
    ELSE [full : FullNames, comments : TreeComments,
          nested : SeqsUpTo(MessageDescriptors(depth - 1), MaxNested)]

\* md.Name()
SimpleName(md) == md.full[Len(md.full)]

RECURSIVE Descendants(_)
Descendants(mds) ==
    IF mds = <<>> THEN {}
    ELSE {mds[i] : i \in 1..Len(mds)}
            \cup UNION {Descendants(mds[i].nested) : i \in 1..Len(mds)}

\* a registry holds one descriptor per full name
Registries ==
    { top \in SeqsUpTo(MessageDescriptors(MaxDepth), MaxTop) :
        \A a, b \in Descendants(top) : a.full = b.full => a = b }

\* SchemaService.formatMessageName
RECURSIVE formatMessageName_From(_, _)
formatMessageName_From(runes, i) ==
    IF i > Len(runes) THEN <<>>
    ELSE (IF i > 1 /\ runes[i] \in UpperRunes THEN <<" ", runes[i]>>
          ELSE <<runes[i]>>) \o formatMessageName_From(runes, i + 1)

formatMessageName(name) == formatMessageName_From(NameRunes[name], 1)

TrimPrefix(t, prefix) ==
    IF t # <<>> /\ Head(t) = prefix THEN Tail(t) ELSE t

TrimSuffix(t, suffix) ==
    IF t # <<>> /\ t[Len(t)] = suffix THEN SubSeq(t, 1, Len(t) - 1) ELSE t

\* one line of a leading comment without its markers
CleanLine(line) ==
    TrimSpace(TrimSuffix(TrimPrefix(TrimPrefix(TrimSpace(line), "//"), "/*"),
                         "*/"))

\* the non-empty cleaned lines joined by single spaces
RECURSIVE CleanComment(_)
CleanComment(lines) ==
    IF lines = <<>> THEN <<>>
    ELSE LET line == CleanLine(Head(lines))
             rest == CleanComment(Tail(lines))
         IN  IF line = <<>> THEN rest
             ELSE IF rest = <<>> THEN line
             ELSE line \o <<" ">> \o rest

DefaultDescription(name) == formatMessageName(name) \o <<" message">>

\* the description that walkMessages gives a message: the source location is
\* looked up only when the parent of the message is a file
Describe(md, parentIsFile) ==
    LET description == IF parentIsFile THEN CleanComment(md.comments)
                       ELSE <<>>
    IN  IF description = <<>> THEN DefaultDescription(SimpleName(md))
        ELSE description

ProtoFile(md, parentIsFile) ==
    [Name |-> formatMessageName(SimpleName(md)),
     Description |-> Describe(md, parentIsFile),
     FullyQualifiedName |-> md.full]

NoListing == [protoFiles |-> <<>>, seenMessages |-> {}]

\* the walk without the set of names already listed
RECURSIVE walkMessages_NoSeen(_, _, _)
walkMessages_NoSeen(mds, parentIsFile, acc) ==
    IF mds = <<>> THEN acc
    ELSE LET md == Head(mds)
             visited ==
                 IF ~InNamespace(md.full)
                 THEN walkMessages_NoSeen(md.nested, FALSE, acc)
                 ELSE walkMessages_NoSeen(
                          md.nested, FALSE,
                          [protoFiles |-> Append(acc.protoFiles,
                                                 ProtoFile(md, parentIsFile)),
                           seenMessages |-> acc.seenMessages])
         IN  walkMessages_NoSeen(Tail(mds), parentIsFile, visited)

\* walkMessages over a list of sibling messages, in declaration order
RECURSIVE walkMessages(_, _, _)
walkMessages(mds, parentIsFile, acc) ==
    IF mds = <<>> THEN acc
    ELSE LET md == Head(mds)
             visited ==
                 IF ~InNamespace(md.full)
                 THEN walkMessages(md.nested, FALSE, acc)
                 ELSE IF md.full \in acc.seenMessages THEN acc
                 ELSE walkMessages(
                          md.nested, FALSE,
                          [protoFiles |-> Append(acc.protoFiles,
                                                 ProtoFile(md, parentIsFile)),
                           seenMessages |-> acc.seenMessages \cup {md.full}])
         IN  walkMessages(Tail(mds), parentIsFile, visited)

\* SchemaService.ListProtoFiles over the top-level messages of the files
ListProtoFiles(top) == walkMessages(top, TRUE, NoListing).protoFiles

\* SchemaHandler.ListProtoFiles
List_Request ==
    /\ last.op = "idle"
    /\ \E top \in Registries :
          last' = [op |-> "list", registry |-> top,
                   status |-> StatusOK, out |-> ListProtoFiles(top)]
    /\ UNCHANGED <<env, bsrToken, validationMode, schemaMode, GlobalFiles, prev>>

\* one message of a file or of another message is described
Describe_Message ==
    /\ last.op = "idle"
    /\ \E full \in FullNames, comments \in CommentTexts,
          parentIsFile \in BOOLEAN :
          LET md == [full |-> full, comments |-> comments, nested |-> <<>>]
          IN  last' = [op |-> "describe", md |-> md,
                       parentIsFile |-> parentIsFile,
                       out |-> walkMessages(<<md>>, parentIsFile,
                                            NoListing).protoFiles]
    /\ UNCHANGED <<env, bsrToken, validationMode, schemaMode, GlobalFiles, prev>>

InitList == Startup({<<"local-then-bsr">>}, {NoToken})

NextList == List_Request \/ Describe_Message \/ Return

SpecList == InitList /\ [][NextList]_vars

(***************************************************************************)
(* Requests served concurrently                                            *)
(***************************************************************************)
\* the requests that are sent while another request is in flight
ConcurrentRequests ==
    [kind : {"validate"}, name : {NameUser},
     payload : {p \in Payloads :
                  /\ p.kind = "object"
                  /\ p.obj["name"] \in {Str(2), Str(3)}
                  /\ p.obj["age"] = Num(18)
                  /\ p.obj["contact_info"] = Absent
                  /\ p.obj["extra"] = Absent},
     resp : {TransportFailure,
             [sent |-> TRUE, status |-> StatusOK, body |-> "message"]},
     ev : {"rules"}]
        \cup [kind : {"schema"}, name : {NameUser}, file : {"ok", "ENOENT"},
              resp : {[sent |-> TRUE, status |-> StatusNotFound, body |-> "none"],
                      [sent |-> TRUE, status |-> StatusOK, body |-> "data"]}]
        \cup [kind : {"commits"}, pageSizeStr : {<<>>, <<"0">>},
              label : {<<"main">>}, pageToken : {<<>>},
              resp : {[sent |-> TRUE, status |-> StatusUnauthorized, body |-> "none"],
                      [sent |-> TRUE, status |-> StatusOK, body |-> "page"]}]

\* the handler that the route of a request runs
Serve(request) ==
    CASE request.kind = "validate" ->
             ValidationHandler_ValidateProto(request.name, request.payload,
                                             request.resp, request.ev)
      [] request.kind = "schema" ->
             SchemaHandler_GetSchema(request.name, request.file, request.resp)
      [] request.kind = "commits" ->
             CommitsHandler_GetCommits(request.pageSizeStr, request.label,
                                       request.pageToken, request.resp)

\* a request that has arrived; alone is the answer it gets when no other
\* request is in flight
Pending(request) == [op |-> "pending", request |-> request, alone |-> Serve(request)]

Served(pending) ==
    [op |-> "served", request |-> pending.request, alone |-> pending.alone,
     response |-> Serve(pending.request)]

\* what serving a request leaves in the registry and in the service
RegistryAfter(pending) ==
    IF pending.request.kind = "validate"
    THEN RegistryAfterValidate(pending.request.name, Serve(pending.request).out)
    ELSE GlobalFiles

\* a service that remembers that the remote source answered a request
ModeAfter_Remembering(pending) ==
    IF /\ pending.request.kind = "validate"
       /\ Serve(pending.request).out.source = "remote"
    THEN LocalOnly
    ELSE validationMode

\* the fields of the service are assigned by NewValidationService only
ModeAfter(pending) ==
    IF pending.request.kind = "validate"
    THEN ModeAfterValidate(Serve(pending.request).out)
    ELSE validationMode

Receive_First ==
    /\ prev.op = "idle"
    /\ \E request \in ConcurrentRequests : prev' = Pending(request)
    /\ UNCHANGED <<env, bsrToken, validationMode, schemaMode, GlobalFiles, last>>

Receive_Second ==
    /\ last.op = "idle"
    /\ \E request \in ConcurrentRequests : last' = Pending(request)
    /\ UNCHANGED <<env, bsrToken, validationMode, schemaMode, GlobalFiles, prev>>

Serve_First ==
    /\ prev.op = "pending"
    /\ prev' = Served(prev)
    /\ GlobalFiles' = RegistryAfter(prev)
    /\ validationMode' = ModeAfter(prev)
    /\ UNCHANGED <<env, bsrToken, schemaMode, last>>

Serve_Second ==
    /\ last.op = "pending"
    /\ last' = Served(last)
    /\ GlobalFiles' = RegistryAfter(last)
    /\ validationMode' = ModeAfter(last)
    /\ UNCHANGED <<env, bsrToken, schemaMode, prev>>

Return_First ==
    /\ prev.op = "served"
    /\ prev' = Idle
    /\ UNCHANGED <<env, bsrToken, validationMode, schemaMode, GlobalFiles, last>>

Return_Second ==
    /\ last.op = "served"
    /\ last' = Idle
    /\ UNCHANGED <<env, bsrToken, validationMode, schemaMode, GlobalFiles, prev>>

NextConcurrent ==
    \/ Receive_First \/ Receive_Second
    \/ Serve_First \/ Serve_Second
    \/ Return_First \/ Return_Second

SpecConcurrent == InitAuth /\ [][NextConcurrent]_vars

(***************************************************************************)
(* Properties                                                              *)
(***************************************************************************)
IsValidate == last.op = "validate" /\ last.called

IsSchema == last.op = "schema" /\ last.called

WellFormed(name) == validateMessageName(name) = NoErr

LocallyResolvable(name) == FindDescriptorByName(name) = "message"

\* the reflection endpoint delivered a bundle holding the type as a message
GoodDescriptor(resp) ==
    resp.sent /\ resp.status = StatusOK /\ resp.body = "message"

\* the schema URL delivered the bundle document
GoodSchema(resp) == resp.sent /\ resp.status = StatusOK /\ resp.body = "data"

Touched(trace) == InTrace(trace, "local") \/ InTrace(trace, "remote")

\* C1: under LocalOnly neither getSchema nor validate issues a remote call,
\* whatever the type name; a name the local source does not provide fails,
\* whatever the remote source would have answered.
C1_LocalOnlyNeverRemote ==
    /\ (last.op = "validate" /\ validationMode = LocalOnly) =>
          /\ ~InTrace(last.out.trace, "remote")
          /\ last.resp = NoResp
          /\ ~LocallyResolvable(last.name) =>
                 (last.http # StatusOK /\ last.out.source = "none")
    /\ (last.op = "schema" /\ schemaMode = LocalOnly) =>
          /\ ~InTrace(last.out.trace, "remote")
          /\ last.resp = NoResp
          /\ last.file # "ok" => (last.http # StatusOK /\ last.out.source = "none")

C1_Witness ==
    /\ validationMode = LocalOnly
    /\ IsValidate
    /\ last.name = NameOther
    /\ last.out.trace = <<"local">>
    /\ last.http = StatusBadRequest

\* C2: under BSROnly neither getSchema nor validate consults the local
\* source; unless the remote answer holds the requested type the request
\* fails, also when the type is registered locally.
C2_RemoteOnlyNeverLocal ==
    /\ (IsValidate /\ validationMode = BSROnly) =>
          /\ ~InTrace(last.out.trace, "local")
          /\ ~GoodDescriptor(last.resp) =>
                 (last.http # StatusOK /\ last.out.source = "none")
    /\ (IsSchema /\ schemaMode = BSROnly) =>
          /\ ~InTrace(last.out.trace, "local")
          /\ ~GoodSchema(last.resp) =>
                 (last.http # StatusOK /\ last.out.source = "none")

\* C3: under LocalThenBSR the local source is asked first; a local hit makes
\* no remote call; after any local miss (not found, not a message, read
\* error) the remote source is asked exactly once, right after, and the
\* request resolves exactly when that one answer delivers the resource.
C3_LocalFirstThenRemoteOnce ==
    /\ (IsValidate /\ validationMode = LocalThenBSR) =>
          /\ last.out.trace[1] = "local"
          /\ IF LocallyResolvable(last.name)
             THEN ~InTrace(last.out.trace, "remote") /\ last.out.source = "local"
             ELSE /\ Count(last.out.trace, "remote") = 1
                  /\ last.out.trace[2] = "remote"
                  /\ GoodDescriptor(last.resp) <=> last.out.source = "remote"
                  /\ ~GoodDescriptor(last.resp) <=>
                         (last.out.source = "none" /\ last.http # StatusOK)
    /\ (IsSchema /\ WellFormed(last.name) /\ schemaMode = LocalThenBSR) =>
          /\ last.out.trace[1] = "local"
          /\ IF last.file = "ok"
             THEN /\ last.out.trace = <<"local">>
                  /\ last.out.source = "local"
                  /\ last.http = StatusOK
             ELSE /\ last.out.trace = <<"local", "remote">>
                  /\ GoodSchema(last.resp) <=>
                         (last.out.source = "remote" /\ last.http = StatusOK)
                  /\ ~GoodSchema(last.resp) <=>
                         (last.out.source = "none" /\ last.http # StatusOK)

C3_Witness ==
    /\ schemaMode = LocalThenBSR
    /\ IsSchema
    /\ last.file = "EIO"
    /\ last.out.trace = <<"local", "remote">>
    /\ last.http = StatusOK

\* both sources failed to provide a well-formed name under LocalThenBSR
SchemaMissedTwice ==
    /\ IsSchema /\ schemaMode = LocalThenBSR /\ WellFormed(last.name)
    /\ last.file \in {"ENOENT", "EIO"}
    /\ ~GoodSchema(last.resp)

ValidateMissedTwice ==
    /\ IsValidate /\ validationMode = LocalThenBSR /\ WellFormed(last.name)
    /\ ~LocallyResolvable(last.name)
    /\ ~GoodDescriptor(last.resp)

\* C4 as stated: when both sources fail under LocalThenBSR, the reported
\* failure preserves the local and the remote cause and is never the raw
\* local error.
C4_BothCausesPreserved ==
    (SchemaMissedTwice \/ ValidateMissedTwice) =>
        /\ last.out.err # NoErr
        /\ last.out.err # last.out.localCause
        /\ ContainsText(last.out.err, last.out.localCause)
        /\ ContainsText(last.out.err, last.out.remoteCause)

\* C4 amended: when both sources fail under LocalThenBSR, getSchema fails
\* with "failed to fetch from BSR" wrapping the remote cause only, validate
\* fails with an "unknown schema name" error carrying neither cause, and
\* neither reports the raw local error: the local cause is dropped.
C4_LocalCauseDropped ==
    /\ SchemaMissedTwice =>
          /\ last.out.localCause # NoErr /\ last.out.remoteCause # NoErr
          /\ last.out.err = <<"failed to fetch from BSR: ">> \o last.out.remoteCause
          /\ ~ContainsText(last.out.err, last.out.localCause)
          /\ last.http \in {StatusNotFound, StatusInternalServerError}
    /\ ValidateMissedTwice =>
          /\ last.out.localCause # NoErr
          /\ SubSeq(last.out.err, 1, 1 + Len(last.name)) = UnknownSchema(last.name)
          /\ ~ContainsText(last.out.err, last.out.localCause)
          /\ last.out.remoteCause # NoErr =>
                 ~ContainsText(last.out.err, last.out.remoteCause)
          /\ last.http = StatusBadRequest

C4_Witness ==
    /\ SchemaMissedTwice
    /\ last.file = "EIO"
    /\ last.resp.sent /\ last.resp.status = StatusInternalServerError
    /\ last.http = StatusInternalServerError

\* C5: a malformed type name is rejected before any source is touched, by
\* getSchema and by validate, in every mode.
C5_MalformedNameTouchesNothing ==
    (last.op \in {"validate", "schema"} /\ ~WellFormed(last.name)) =>
        /\ ~Touched(last.out.trace)
        /\ last.http = StatusBadRequest

WithStatus(status) ==
    ValidationHandler_ValidateProto(
        last.name, last.payload,
        [sent |-> TRUE, status |-> status, body |-> "none"], "rules")

\* C7: when the descriptor fetch answers 401, the outcome of validate
\* differs from its outcome for 404 and for any other non-2xx status.
C7_UnauthorizedDistinct ==
    (IsValidate /\ last.resp.sent /\ last.resp.status = StatusUnauthorized) =>
        \A status \in {StatusNotFound, StatusInternalServerError} :
            \/ WithStatus(status).out.err # last.out.err
            \/ WithStatus(status).http # last.http
\* the payload is not a JSON object, or gives a declared field a value of
\* the wrong kind
Undecodable(payload) ==
    \/ payload.kind = "syntax"
    \/ /\ payload.kind = "object"
       /\ \E f \in Fields :
             payload.obj[f] # Absent /\ payload.obj[f].kind # FieldKind[f]

\* C8: when the type resolves and the payload cannot be decoded into it,
\* validate returns the processing error "failed to unmarshal JSON", the nil
\* error list and success=false, and the evaluator is not invoked.
C8_DecodeFailureAborts ==
    (IsValidate /\ last.out.source # "none" /\ Undecodable(last.payload)) =>
        /\ last.out.err # NoErr
        /\ last.out.err[1] = "failed to unmarshal JSON: "
        /\ last.out.errors = <<>>
        /\ last.out.errorsNil
        /\ ~last.out.success
        /\ ~InTrace(last.out.trace, "validate")
        /\ last.ev = "none"
        /\ last.http = StatusBadRequest

C8_Witness ==
    /\ IsValidate
    /\ last.out.source = "remote"
    /\ last.payload.kind = "object"
    /\ last.payload.obj["name"] = Num(17)
    /\ last.out.trace[Len(last.out.trace)] = "unmarshal"
    /\ last.out.err[1] = "failed to unmarshal JSON: "

\* C9: whenever validate returns no processing error, success holds exactly
\* when the error list is empty, the list is never nil, and the answer is
\* HTTP 200.
C9_SuccessIffNoErrors ==
    (IsValidate /\ last.out.err = NoErr) =>
        /\ last.out.success <=> last.out.errors = <<>>
        /\ ~last.out.errorsNil
        /\ last.http = StatusOK

C9_Witness ==
    /\ IsValidate
    /\ last.out.err = NoErr
    /\ ~last.out.success
    /\ Len(last.out.errors) = 2
    /\ last.http = StatusOK

\* C10: a payload with one undeclared key added validates as the payload
\* without it: same success, same error list, same processing error.
C10_LenientDecode ==
    (prev.op = "validate" /\ last.op = "validate") =>
        /\ last.out.success = prev.out.success
        /\ last.out.errors = prev.out.errors
        /\ last.out.errorsNil = prev.out.errorsNil
        /\ last.out.err = prev.out.err
        /\ last.http = prev.http

C10_Witness ==
    /\ prev.op = "validate" /\ last.op = "validate"
    /\ prev.called /\ last.called
    /\ prev.payload.obj["extra"] = Absent
    /\ last.payload.obj["extra"] = Num(17)
    /\ last.payload.obj["name"] = Str(2)
    /\ last.payload.obj["age"] = Num(18)
    /\ Len(prev.out.errors) = 1
    /\ last.out.errors = prev.out.errors

(***************************************************************************)
(* C11: absent field and zero-valued field                                 *)
(***************************************************************************)
\* the second request of a pair carries the zero value of a field that the
\* first request leaves out
IsZeroPair ==
    /\ prev.op = "validate" /\ last.op = "validate"
    /\ \E f \in Fields :
          /\ prev.payload.obj[f] = Absent
          /\ last.payload = WithKey(prev.payload, f, Zero(f))

ZeroedField == CHOOSE f \in Fields : last.payload.obj[f] # prev.payload.obj[f]

SameAnswer == last.http = prev.http /\ last.out = prev.out

IsHumanized == last.op = "humanize"

IsCollected == last.op = "collect"

Declared(v) == v.hasProto /\ v.message # <<>>

\* C12: the declared message decides first: with a field path P and a
\* declared message M the friendly text is exactly "field 'P': M", with M and
\* no field path it is M verbatim, and only without a declared message is
\* the technical text classified.
C12_DeclaredMessageFirst ==
    IsHumanized =>
        LET v == last.violation
            friendly == last.out[1].Friendly
        IN  /\ Len(last.out) = 1
            /\ (Declared(v) /\ v.fieldPath # <<>>) =>
                  friendly = <<"field '">> \o v.fieldPath \o <<"': ">> \o v.message
            /\ (Declared(v) /\ v.fieldPath = <<>>) => friendly = v.message
            /\ ~Declared(v) => friendly = makeFriendlyError(v.technical)

\* path "age" and message "must be an adult" over a technical text that the
\* classification alone would have turned into something else
C12_Witness ==
    /\ IsHumanized
    /\ last.violation.fieldPath = <<"age">>
    /\ last.violation.message = <<"must be an adult">>
    /\ last.violation.technical = CompileErrorText
    /\ last.out[1].Friendly = <<"field '", "age", "': ", "must be an adult">>
    /\ makeFriendlyError(last.violation.technical) # last.out[1].Friendly

\* C13 as stated: whatever the violation holds, the friendly text of its
\* ValidationError is not empty.
C13_FriendlyNonEmpty ==
    /\ IsHumanized => \A i \in 1..Len(last.out) : last.out[i].Friendly # <<>>
    /\ IsCollected => \A i \in 1..Len(last.out) : last.out[i].Friendly # <<>>

\* C14: the technical text of every entry is the evaluator's text for that
\* violation (or its top-level message), unchanged, whichever way the
\* friendly text was made.
C14_TechnicalUntouched ==
    /\ IsHumanized => last.out[1].Technical = last.violation.technical
    /\ IsCollected =>
          IF last.verdict.Violations # <<>>
          THEN \A i \in 1..Len(last.out) :
                   last.out[i].Technical = last.verdict.Violations[i].technical
          ELSE last.out[1].Technical = last.verdict.text

\* a compile error whose friendly text comes from the constraint id: the
\* technical text is still the whole original
C14_Witness ==
    /\ IsCollected
    /\ last.verdict.kind = "error"
    /\ last.verdict.text = CompileErrorText
    /\ last.out[1].Friendly = <<"Validation failed: ", "age check">>
    /\ last.out[1].Technical = CompileErrorText

\* C15: n >= 1 violations give n entries, entry i the humanized violation i;
\* a failure without structured violations gives one entry made from the
\* evaluator's top-level message.
C15_OneEntryPerViolation ==
    IsCollected =>
        IF last.verdict.Violations # <<>>
        THEN /\ Len(last.out) = Len(last.verdict.Violations)
             /\ \A i \in 1..Len(last.out) :
                   last.out[i] = Humanize(last.verdict.Violations[i])
        ELSE last.out = <<ValidationError(makeFriendlyError(last.verdict.text),
                                        last.verdict.text)>>

\* two different violations, kept in the evaluator's order
C15_Witness ==
    /\ IsCollected
    /\ last.verdict.Violations = <<AgeViolation(TRUE), NameViolation(TRUE)>>
    /\ last.out = <<Humanize(AgeViolation(TRUE)), Humanize(NameViolation(TRUE))>>

(***************************************************************************)
(* C16: the same request twice                                             *)
(***************************************************************************)
\* both requests of a repeated run have been answered
IsRepeat ==
    /\ prev.op = "validate" /\ last.op = "validate"
    /\ last.name = prev.name /\ last.payload = prev.payload

IsCommits == last.op = "commits"

\* the page sizes that are zero, negative or no integer
UnusablePageSizes ==
    { <<"0">>, <<"-", "1">>, <<"-", "0">>, <<"a">>, <<"2", ".", "5">>,
      <<"5", " ">>, <<"-">> }

\* C17: a pageSize that is zero, negative or no integer is answered 400
\* without a remote call; a request without pageSize asks the remote source
\* for the default page size, which is positive.
C17_PageSizeChecked ==
    IsCommits =>
        /\ last.pageSizeStr \in UnusablePageSizes =>
              /\ last.http = StatusBadRequest
              /\ ~last.called
              /\ last.out.trace = <<>>
              /\ last.resp = NoResp
        /\ last.pageSizeStr = <<>> =>
              /\ last.called
              /\ last.out.trace = <<"remote">>
              /\ last.out.request.PageSize = [hi |-> 0, lo |-> 26]
              /\ "pageSize" \notin last.out.request.omitted

C17_Witness ==
    /\ IsCommits
    /\ last.pageSizeStr = <<"0">>
    /\ last.http = StatusBadRequest
    /\ ~last.called

\* the kind of answer the label-history endpoint gave
RemoteKind(resp) ==
    IF ~resp.sent THEN "transport"
    ELSE IF resp.status = StatusUnauthorized THEN "unauthorized"
    ELSE IF resp.status = StatusNotFound THEN "label not found"
    ELSE IF resp.status # StatusOK THEN "status"
    ELSE IF resp.body = "readerr" THEN "unreadable"
    ELSE IF resp.body \in {"syntax", "eof"} THEN "malformed"
    ELSE "page"

\* the first chunk of the error text for each kind of failure
ErrorHead ==
    [transport |-> "HTTP request failed: ",
     unauthorized |-> "unauthorized: invalid or missing BUF_TOKEN",
     status |-> "Buf API returned status code ",
     unreadable |-> "failed to read response body: ",
     malformed |-> "failed to unmarshal JSON response: "]

\* C18: ListCommits answers 401 with the unauthorized error, 404 with the
\* label-not-found error naming the label, any other status but 200 with an
\* error carrying the status code, and a transport failure and a malformed
\* body with two more errors; the errors of different kinds differ, and a
\* page is returned only for 200 with a decodable body.
C18_RemoteOutcomesDistinct ==
    (IsCommits /\ last.called) =>
        LET kind == RemoteKind(last.resp)
            err == last.out.err
            label == IF last.label = <<>> THEN <<"main">> ELSE last.label
        IN  /\ (kind = "page") <=> (err = NoErr)
            /\ (kind = "page") <=> (last.out.page = "page")
            /\ kind = "label not found" => err = <<"label not found: ">> \o label
            /\ kind \in DOMAIN ErrorHead => err[1] = ErrorHead[kind]
            /\ kind = "status" => err[2] = StatusText(last.resp.status)
            /\ Cardinality({ErrorHead[k] : k \in DOMAIN ErrorHead}
                               \cup {"label not found: "}) = 6

C18_Witness ==
    /\ IsCommits
    /\ last.resp.sent /\ last.resp.status = StatusUnauthorized
    /\ last.out.err = <<"unauthorized: invalid or missing BUF_TOKEN">>
    /\ last.out.page = "none"

\* a request that got as far as a service
IsServed == last.op \in {"validate", "schema", "commits"} /\ last.called

\* the remote call of the request failed: no answer, or a status but 200
RemoteFailed ==
    /\ InTrace(last.out.trace, "remote")
    /\ (~last.resp.sent \/ last.resp.status # StatusOK)

\* C19: every validate, getSchema and listCommits request makes at most one
\* remote call, and a failed remote call is the last step of the request,
\* which fails.
C19_NoRetry ==
    IsServed =>
        /\ Count(last.out.trace, "remote") <= 1
        /\ RemoteFailed =>
              /\ last.out.err # NoErr
              /\ last.out.trace[Len(last.out.trace)] = "remote"
              /\ last.http # StatusOK

\* a validate request whose only remote call got a 500
C19_Witness ==
    /\ IsValidate
    /\ validationMode = BSROnly
    /\ RemoteFailed
    /\ last.resp.status = StatusInternalServerError
    /\ last.out.trace = <<"remote">>
    /\ last.out.err # NoErr

CalledRemote == IsServed /\ InTrace(last.out.trace, "remote")

\* some header line is an Authorization line
HasAuthorization(headers) == \E h \in headers : h[1] = "Authorization: "

\* the remote source answered the call with what was asked for
RemoteDelivered ==
    /\ last.resp.sent /\ last.resp.status = StatusOK
    /\ last.resp.body \in {"message", "data", "page"}

\* C21: every remote call carries "Bearer <credential>" when a credential is
\* configured; without one the call is made all the same, with no
\* Authorization header, and does not fail when the remote source delivers.
C21_BearerWhenConfigured ==
    /\ CalledRemote =>
          /\ bsrToken # NoToken => Authorization(bsrToken) \in last.headers
          /\ bsrToken = NoToken => ~HasAuthorization(last.headers)
          /\ RemoteDelivered =>
                IF last.op = "validate"
                THEN last.out.remoteCause = NoErr /\ last.out.source # "none"
                ELSE last.out.err = NoErr
    /\ (IsCommits /\ last.called) => CalledRemote
    /\ (IsValidate /\ validationMode = BSROnly) => CalledRemote
    /\ (IsSchema /\ schemaMode = BSROnly /\ WellFormed(last.name)) => CalledRemote

\* a schema bundle fetched with the credential
C21_Witness ==
    /\ IsSchema
    /\ bsrToken = <<"secret">>
    /\ last.out.source = "remote"
    /\ last.headers = {<<"Authorization: ", "Bearer ", "secret">>}

(***************************************************************************)
(* C22: the modes when the environment does not set them                   *)
(***************************************************************************)
\* C22 as stated: without VALIDATION_SOURCE_MODE descriptors are resolved
\* bsr-only, so the first source asked is the remote one; without
\* SCHEMA_SOURCE_MODE schemas are resolved local-then-bsr; either variable
\* decides its own service only.
C22_DocumentedDefaults ==
    /\ (env["VALIDATION_SOURCE_MODE"] = <<>> /\ last.op = "resolve") =>
          /\ validationMode = BSROnly
          /\ last.out.trace[1] = "remote"
    /\ (env["SCHEMA_SOURCE_MODE"] = <<>> /\ last.op = "locate"
            /\ WellFormed(last.name)) =>
          /\ schemaMode = LocalThenBSR
          /\ last.out.trace[1] = "local"
    /\ env["VALIDATION_SOURCE_MODE"] = <<"local-only">> => validationMode = LocalOnly
    /\ env["SCHEMA_SOURCE_MODE"] = <<"local-only">> => schemaMode = LocalOnly
    /\ env["VALIDATION_SOURCE_MODE"] = <<"bsr-only">> => validationMode = BSROnly
    /\ env["SCHEMA_SOURCE_MODE"] = <<"bsr-only">> => schemaMode = BSROnly

(***************************************************************************)
(* C23: every message type of the namespace is listed exactly once         *)
(***************************************************************************)
IsList == last.op = "list"

\* the positions of the listing that carry a full name
ListedAt(fullName) ==
    {i \in 1..Len(last.out) : last.out[i].FullyQualifiedName = fullName}

\* C23: the listing holds every message of the registry whose full name
\* starts with the namespace exactly once, whatever its depth and whatever
\* its parent, and holds nothing else
C23_ListedExactlyOnce ==
    IsList =>
        /\ \A md \in Descendants(last.registry) :
              InNamespace(md.full) => Cardinality(ListedAt(md.full)) = 1
        /\ \A i \in 1..Len(last.out) :
              /\ InNamespace(last.out[i].FullyQualifiedName)
              /\ \E md \in Descendants(last.registry) :
                    md.full = last.out[i].FullyQualifiedName

\* a message of the namespace nested in a message outside it and declared
\* once more at top level is listed once
C23_Witness ==
    /\ IsList
    /\ Len(last.registry) = 2
    /\ ~InNamespace(last.registry[1].full)
    /\ last.registry[1].nested = <<last.registry[2]>>
    /\ InNamespace(last.registry[2].full)
    /\ Len(last.out) = 1

(***************************************************************************)
(* C27: the description of a listed type                                   *)
(***************************************************************************)
\* the descriptors that the entries of the answer were made from
ListedDescriptors ==
    IF last.op = "describe" THEN {last.md} ELSE Descendants(last.registry)

\* C27: every listed type, top-level or nested, carries a non-empty
\* description: its leading comment without markers and surrounding
\* whitespace when that is not empty, and otherwise its spaced simple name
\* followed by " message"
C27_DescriptionFromComment ==
    last.op \in {"list", "describe"} =>
        \A i \in 1..Len(last.out) :
            \A md \in ListedDescriptors :
                md.full = last.out[i].FullyQualifiedName =>
                    /\ last.out[i].Description # <<>>
                    /\ last.out[i].Description =
                           IF CleanComment(md.comments) # <<>>
                           THEN CleanComment(md.comments)
                           ELSE DefaultDescription(SimpleName(md))

IsCompileMarkerPath ==
    /\ IsHumanized
    /\ ~last.violation.hasProto
    /\ HasChunk(last.violation.technical, MarkerChunks)

\* identifiers with underscores as spaces and in lower case
SpacedLower == [age_check |-> "age check", Min_Len |-> "min len"]

\* C25: on the compile-marker path the friendly text is the hand-written
\* text when the extracted identifier is in the static map, otherwise
\* "Validation failed: " followed by the identifier with underscores as
\* spaces and in lower case, and the result of the generic cleanup when no
\* identifier can be extracted
C25_CompileMarkerPath ==
    IsCompileMarkerPath =>
        LET technical == last.violation.technical
            id == extractConstraintID(technical)
        IN  last.out[1].Friendly =
                IF id = "" THEN cleanupTechnicalError(technical)
                ELSE IF id = "comment_required_if_blocked"
                THEN <<"comment is required when status is TASK_STATUS_BLOCKED">>
                ELSE <<"Validation failed: ", SpacedLower[id]>>

\* an identifier outside the static map with a capital letter was extracted
C25_Witness ==
    /\ IsCompileMarkerPath
    /\ extractConstraintID(last.violation.technical) = "Min_Len"
    /\ last.out[1].Friendly = <<"Validation failed: ", "min len">>

(***************************************************************************)
(* C26: the generic cleanup                                                *)
(***************************************************************************)
\* the technical text of the last violation went through the cleanup
IsCleanupPath ==
    /\ IsHumanized
    /\ ~last.violation.hasProto
    /\ ~HasChunk(last.violation.technical, MarkerChunks)

\* a text without the container clause it ends in
StripTrailingContainer(t) ==
    IF TrimSpace(t) # <<>> /\ TrimSpace(t)[Len(TrimSpace(t))] \in ContainerChunks
    THEN SubSeq(TrimSpace(t), 1, Len(TrimSpace(t)) - 1)
    ELSE t

\* C26: the cleanup removes a leading "ERROR:" prefix in any case, every
\* "<input>:<line>:<col>:" locator and a trailing "(in container '...')"
\* suffix and then trims white space; when the cleaned text is empty or
\* equal to the input, the input is returned
C26_GenericCleanup ==
    IsCleanupPath =>
        LET technical == last.violation.technical
            cleaned == TrimSpace(StripTrailingContainer(
                           StripLocators(StripErrorPrefix(technical))))
        IN  last.out[1].Friendly =
                IF cleaned = <<>> \/ cleaned = technical THEN technical
                ELSE cleaned

(***************************************************************************)
(* C28: the status of a failed commit-history request                      *)
(***************************************************************************)
\* C28: whatever the label, a commit-history request is answered 404 when
\* the remote endpoint answered 404, 401 when it answered 401 and 500 for
\* every other remote failure
C28_StatusByFailureKind ==
    (IsCommits /\ last.called) =>
        LET kind == RemoteKind(last.resp)
        IN  /\ kind = "label not found" => last.http = StatusNotFound
            /\ kind = "unauthorized" => last.http = StatusUnauthorized
            /\ kind \in {"transport", "status", "unreadable", "malformed"} =>
                  last.http = StatusInternalServerError

(***************************************************************************)
(* C29: the page size and the page token sent to the remote endpoint       *)
(***************************************************************************)
\* the page size that the handler accepted for the last request
AcceptedPageSize ==
    IF last.pageSizeStr = <<>> THEN DefaultPageSize ELSE Atoi(last.pageSizeStr).n

\* C29: for every accepted page size the request sent to the remote
\* endpoint carries a pageSize field equal to that value, a page token is
\* sent as it was supplied and an empty page token is left out
C29_PageSizeSentUnchanged ==
    (IsCommits /\ last.called) =>
        /\ "pageSize" \notin last.out.request.omitted
        /\ last.out.request.PageSize =
               [hi |-> AcceptedPageSize.hi, lo |-> AcceptedPageSize.lo]
        /\ last.out.request.PageSize.hi < Limb \div 2
        /\ last.pageToken # <<>> =>
              /\ last.out.request.PageToken = last.pageToken
              /\ "pageToken" \notin last.out.request.omitted
        /\ last.pageToken = <<>> => "pageToken" \in last.out.request.omitted

(***************************************************************************)
(* C30: the file and the URL of an accepted name                           *)
(***************************************************************************)
\* the name of the last schema request passed validateMessageName
IsAcceptedName == last.op = "schema" /\ last.called /\ last.out.trace # <<>>

\* C30: for every accepted name the local file is the direct child
\* "<name>.schema.bundle.json" of the bundle directory and the remote URL
\* ends in that file name; the name holds no path separator, no empty
\* segment and no ".." segment
C30_FileInsideBundleDirectory ==
    IsAcceptedName =>
        /\ ~ContainsChar(last.name, "/")
        /\ ~ContainsText(last.name, <<".", ".">>)
        /\ last.name[1] # "." /\ last.name[Len(last.name)] # "."
        /\ InTrace(last.out.trace, "local") =>
              last.path = Append(BundleDirectory, last.name \o BundleSuffix)
        /\ InTrace(last.out.trace, "remote") =>
              last.url = URLPrefix \o last.name \o BundleSuffix

\* a name was accepted, its file was missed and its URL was requested
C30_Witness ==
    /\ IsAcceptedName
    /\ last.name = NameUser
    /\ last.out.trace = <<"local", "remote">>
    /\ last.path = <<<<"base">>, <<"gen">>, <<"jsonschema">>,
                      <<"p", ".", "A", ".schema.bundle.json">>>>
    /\ last.url[Len(last.url)] = ".schema.bundle.json"

====
